---- MODULE Spec2Model ----
(***************************************************************************)
(* Hierarchical retrieval, strict metric extraction and conflict detection *)
(* of the mutual-fund RAG service (rag_retriever.py, query_classifier.py,  *)
(* reranker.py, rag_qa_llm.py, conflict_detector.py).                      *)
(*                                                                         *)
(* Strings whose content the code inspects (queries, chunk texts, fact     *)
(* values) are sequences of one-character strings; floats are exact        *)
(* rationals in units of 1/Scale.                                          *)
(***************************************************************************)
EXTENDS Integers, Sequences, FiniteSets, TLC

VARIABLES
    facts,      \* ConflictDetector: rows of facts_extracted.csv, in file order
    now,        \* the wall clock read by datetime.now()
    conflicts,  \* ConflictDetector.conflicts (result of the latest run)
    previous,   \* history: the result of the run before the latest one
    runs,       \* history: number of detect_conflicts runs so far, capped at 2
    resolved,   \* the pair returned by the latest get_resolved_value call
    chunks,     \* RAGQALLM: the chunk list supplied to _extract_metric_strict
    store,      \* the rows of chunks_clean/chunks_clean.jsonl, or NoFile
    result,     \* the latest _extract_metric_strict call: arguments and return value
    metadata,   \* RAGRetriever.metadata: the chunk records behind the FAISS index
    use_reranker, \* RAGRetriever.use_reranker: the cross-encoder model was loaded
    retrieved,  \* the latest retrieve call: arguments, locals and returned list
    sources,    \* clean_chunks: the rows of sources.csv with their processed text
    build,      \* clean_chunks.main: its position and its chunk and fact collections
    input,      \* the arguments of the function under check
    output,     \* what the function under check returned and left behind
    calls,      \* the retrieve calls in progress, one per caller
    service     \* the API process: response cache, chat context, sessions, latest response

cdVars == <<facts, now, conflicts, previous, runs, resolved>>

exVars == <<chunks, store, result>>

rtVars == <<metadata, use_reranker, retrieved>>

bdVars == <<sources, build>>

fnVars == <<input, output>>

restVars == <<sources, build, input, output, calls, service>>

vars == <<facts, now, conflicts, previous, runs, resolved, chunks, store, result,
          metadata, use_reranker, retrieved, sources, build, input, output, calls, service>>

\* the components that are not running
IdleRest ==
    /\ sources = <<>>
    /\ build = <<>>
    /\ input = <<>>
    /\ output = <<>>
    /\ calls = <<>>
    /\ service = <<>>

IdleService ==
    /\ facts = <<>>
    /\ now = 0
    /\ conflicts = <<>>
    /\ previous = <<>>
    /\ runs = 0
    /\ resolved = <<"unset">>
    /\ chunks = <<>>
    /\ store = <<>>
    /\ result = <<>>
    /\ retrieved = <<>>

----------------------------------------------------------------------------
(* Bounds *)

MaxRows == 3

MaxClock == 1

MaxChunks == 3

----------------------------------------------------------------------------
(* Generic helpers *)

NoneVal == 0 - 1

Scale == 12 * 100

Min2(a, b) == IF a < b THEN a ELSE b

AbsDiff(a, b) == IF a < b THEN b - a ELSE a - b

Digits == {"0", "1", "2", "3", "4", "5", "6", "7", "8", "9"}

DigitVal(c) ==
    CASE c = "0" -> 0 [] c = "1" -> 1 [] c = "2" -> 2 [] c = "3" -> 3
      [] c = "4" -> 4 [] c = "5" -> 5 [] c = "6" -> 6 [] c = "7" -> 7
      [] c = "8" -> 8 [] c = "9" -> 9

IsDigit(c) == c \in Digits

IsSpace(c) == c = " "

\* str.lower() of one character
LowerChar(c) ==
    CASE c = "A" -> "a" [] c = "B" -> "b" [] c = "C" -> "c" [] c = "D" -> "d"
      [] c = "E" -> "e" [] c = "F" -> "f" [] c = "G" -> "g" [] c = "H" -> "h"
      [] c = "I" -> "i" [] c = "J" -> "j" [] c = "K" -> "k" [] c = "L" -> "l"
      [] c = "M" -> "m" [] c = "N" -> "n" [] c = "O" -> "o" [] c = "P" -> "p"
      [] c = "Q" -> "q" [] c = "R" -> "r" [] c = "S" -> "s" [] c = "T" -> "t"
      [] c = "U" -> "u" [] c = "V" -> "v" [] c = "W" -> "w" [] c = "X" -> "x"
      [] c = "Y" -> "y" [] c = "Z" -> "z"
      [] OTHER -> c

Lower(s) == [i \in 1..Len(s) |-> LowerChar(s[i])]

RECURSIVE StripLeft(_)
StripLeft(s) ==
    IF Len(s) > 0 /\ IsSpace(s[1]) THEN StripLeft(Tail(s)) ELSE s

RECURSIVE StripRight(_)
StripRight(s) ==
    IF Len(s) > 0 /\ IsSpace(s[Len(s)]) THEN StripRight(SubSeq(s, 1, Len(s) - 1)) ELSE s

\* str.strip()
Strip(s) == StripRight(StripLeft(s))

\* "needle in haystack" for Python strings
Contains(hay, needle) ==
    \E i \in 1..(Len(hay) - Len(needle) + 1) :
        SubSeq(hay, i, i + Len(needle) - 1) = needle

\* first position >= i that is past the end or holds no digit
RECURSIVE DigitRunEnd(_, _)
DigitRunEnd(s, i) ==
    IF i <= Len(s) /\ IsDigit(s[i]) THEN DigitRunEnd(s, i + 1) ELSE i

\* first position >= i that is past the end or holds no whitespace
RECURSIVE SpaceRunEnd(_, _)
SpaceRunEnd(s, i) ==
    IF i <= Len(s) /\ IsSpace(s[i]) THEN SpaceRunEnd(s, i + 1) ELSE i

\* int() of the digits s[i..j-1]
RECURSIVE DigitsValue(_, _, _)
DigitsValue(s, i, j) ==
    IF j <= i THEN 0 ELSE DigitsValue(s, i, j - 1) * 10 + DigitVal(s[j - 1])

RECURSIVE Pow10(_)
Pow10(n) == IF n = 0 THEN 1 ELSE 10 * Pow10(n - 1)

\* remove every character of the class cls (re.sub(r'[...]', '', s))
RECURSIVE RemoveChars(_, _)
RemoveChars(s, cls) ==
    IF s = <<>> THEN <<>>
    ELSE IF Head(s) \in cls THEN RemoveChars(Tail(s), cls)
    ELSE <<Head(s)>> \o RemoveChars(Tail(s), cls)

----------------------------------------------------------------------------
(* conflict_detector.py *)

\* the fields detect_conflicts scans, in the order of its list
Fields == <<"min_sip", "min_lumpsum", "exit_load", "lock_in", "expense_ratio">>

FieldSet == {Fields[i] : i \in 1..Len(Fields)}

\* self.source_priority, in dict order, priorities in hundredths
source_priority ==
    << <<"sid", 100>>, <<"kim", 90>>, <<"factsheet", 80>>, <<"overview", 70>>,
       <<"amfi", 90>>, <<"sebi", 95>>, <<"groww", 60>> >>

\* A source id is the sequence of its underscore-separated lower-case words;
\* "key in source_id.lower()" is the occurrence of the key among the words.
RECURSIVE PriorityFrom(_, _)
PriorityFrom(source_id, k) ==
    IF k > Len(source_priority) THEN 50
    ELSE IF \E i \in 1..Len(source_id) : source_id[i] = source_priority[k][1]
         THEN source_priority[k][2]
         ELSE PriorityFrom(source_id, k + 1)

_get_source_priority(source_id) == PriorityFrom(source_id, 1)

\* the values both detect_conflicts and get_resolved_value skip
IsBlankFact(value) ==
    \/ value = <<>>
    \/ Len(value) <= 3 /\ Lower(value) \in {<<"n", "i", "l">>, <<"n", "a">>, <<"n", "/", "a">>}

\* r'(\d+\.?\d*)\s*%' anchored at position i: the end of group 1, or 0
PercentGroupEnd(s, i) ==
    IF ~IsDigit(s[i]) THEN 0
    ELSE LET e1 == DigitRunEnd(s, i + 1)
             e2 == IF e1 <= Len(s) /\ s[e1] = "." THEN DigitRunEnd(s, e1 + 1) ELSE e1
             p  == SpaceRunEnd(s, e2)
         IN IF p <= Len(s) /\ s[p] = "%" THEN e2 ELSE 0

\* float() of the decimal literal s[i..j-1], in units of 1/Scale
DecimalValue(s, i, j) ==
    LET e1 == DigitRunEnd(s, i)
        fracLen == IF e1 < j THEN j - e1 - 1 ELSE 0
    IN DigitsValue(s, i, e1) * Scale
       + (IF fracLen > 0
          THEN (DigitsValue(s, e1 + 1, j) * Scale) \div Pow10(fracLen)
          ELSE 0)

\* re.search(r'(\d+\.?\d*)\s*%', value) from position i on: float(group 1), or None
RECURSIVE PercentSearchFrom(_, _)
PercentSearchFrom(s, i) ==
    IF i > Len(s) THEN NoneVal
    ELSE LET e == PercentGroupEnd(s, i)
         IN IF e # 0 THEN DecimalValue(s, i, e) ELSE PercentSearchFrom(s, i + 1)

PercentSearch(s) == PercentSearchFrom(s, 1)

\* re.search(r'(\d+)', s) from position i on: float(group 1), or None
RECURSIVE FirstIntegerFrom(_, _)
FirstIntegerFrom(s, i) ==
    IF i > Len(s) THEN NoneVal
    ELSE IF IsDigit(s[i]) THEN DigitsValue(s, i, DigitRunEnd(s, i))
    ELSE FirstIntegerFrom(s, i + 1)

FirstInteger(s) == FirstIntegerFrom(s, 1)

_normalize_value(value, field) ==
    IF \/ value = <<>>
       \/ Len(value) <= 13 /\ Lower(value) \in
              {<<"n", "i", "l">>, <<"n", "a">>, <<"n", "/", "a">>,
               <<"n", "o", "t", " ", "a", "v", "a", "i", "l", "a", "b", "l", "e">>}
    THEN NoneVal
    ELSE IF field \in {"expense_ratio", "exit_load"}
    THEN PercentSearch(value)
    ELSE IF field \in {"minimum_sip", "min_lumpsum"}
    THEN LET n == FirstInteger(RemoveChars(value, {"₹", "R", "s", ".", ",", " "}))
         IN IF n = NoneVal THEN NoneVal ELSE n * Scale
    ELSE IF field = "lock_in"
    THEN LET n == FirstInteger(value)
         IN IF n = NoneVal THEN NoneVal
            ELSE IF Contains(Lower(value), <<"m", "o", "n", "t", "h">>)
                 THEN (n * Scale) \div 12
                 ELSE n * Scale
    ELSE NoneVal

\* the default threshold 0.01 of _values_conflict, in units of 1/Scale
PercentThreshold == Scale \div 100

\* variant of _values_conflict: the tolerance itself already counts as a conflict
ValuesConflictInclusive(val1, val2, field) ==
    IF val1 = NoneVal \/ val2 = NoneVal THEN FALSE
    ELSE IF field \in {"expense_ratio", "exit_load"}
    THEN AbsDiff(val1, val2) >= PercentThreshold
    ELSE IF field \in {"minimum_sip", "min_lumpsum"}
    THEN AbsDiff(val1, val2) >= 10 * Scale
    ELSE IF field = "lock_in"
    THEN val1 # val2
    ELSE FALSE

_values_conflict(val1, val2, field) ==
    IF val1 = NoneVal \/ val2 = NoneVal THEN FALSE
    ELSE IF field \in {"expense_ratio", "exit_load"}
    THEN AbsDiff(val1, val2) > PercentThreshold
    ELSE IF field \in {"minimum_sip", "min_lumpsum"}
    THEN AbsDiff(val1, val2) > 10 * Scale
    ELSE IF field = "lock_in"
    THEN val1 # val2
    ELSE FALSE

\* list.sort(key=priority, reverse=True) is stable: entry i of s moves behind
\* the entries of higher priority and the earlier entries of its own priority
SortedPosition(s, i) ==
    1 + Cardinality({j \in 1..Len(s) :
            \/ s[j].priority > s[i].priority
            \/ s[j].priority = s[i].priority /\ j < i})

SortByPriority(s) ==
    [k \in 1..Len(s) |-> s[CHOOSE i \in 1..Len(s) : SortedPosition(s, i) = k]]

\* keys of a dict in insertion order: s without repeated occurrences
RECURSIVE DedupeFrom(_, _, _)
DedupeFrom(s, i, acc) ==
    IF i > Len(s) THEN acc
    ELSE IF \E k \in 1..Len(acc) : acc[k] = s[i]
         THEN DedupeFrom(s, i + 1, acc)
         ELSE DedupeFrom(s, i + 1, Append(acc, s[i]))

Dedupe(s) == DedupeFrom(s, 1, <<>>)

\* the value detect_conflicts and get_resolved_value read from a row
RowValue(row, field) == Strip(row.values[field])

\* facts_by_scheme[scheme_tag][field], lines 99-121, from row i on
RECURSIVE FactsFrom(_, _, _, _)
FactsFrom(table, scheme_tag, field, i) ==
    IF i > Len(table) THEN <<>>
    ELSE IF table[i].scheme_tag = scheme_tag /\ ~IsBlankFact(RowValue(table[i], field))
    THEN << [source_id |-> table[i].source_id,
             value     |-> RowValue(table[i], field),
             priority  |-> _get_source_priority(table[i].source_id)] >>
         \o FactsFrom(table, scheme_tag, field, i + 1)
    ELSE FactsFrom(table, scheme_tag, field, i + 1)

FactsOf(table, scheme_tag, field) == FactsFrom(table, scheme_tag, field, 1)

\* the scheme tags of the rows from row i on
RECURSIVE SchemesFrom(_, _)
SchemesFrom(table, i) ==
    IF i > Len(table) THEN <<>>
    ELSE <<table[i].scheme_tag>> \o SchemesFrom(table, i + 1)

\* the keys of facts_by_scheme, in insertion order
SchemeOrder(table) == Dedupe(SchemesFrom(table, 1))

\* the fields row i appends to facts_by_scheme[scheme_tag], from field k on
RECURSIVE RowFieldsFrom(_, _)
RowFieldsFrom(row, k) ==
    IF k > Len(Fields) THEN <<>>
    ELSE IF IsBlankFact(RowValue(row, Fields[k])) THEN RowFieldsFrom(row, k + 1)
    ELSE <<Fields[k]>> \o RowFieldsFrom(row, k + 1)

RECURSIVE FieldsFrom(_, _, _)
FieldsFrom(table, scheme_tag, i) ==
    IF i > Len(table) THEN <<>>
    ELSE IF table[i].scheme_tag = scheme_tag
    THEN RowFieldsFrom(table[i], 1) \o FieldsFrom(table, scheme_tag, i + 1)
    ELSE FieldsFrom(table, scheme_tag, i + 1)

\* the keys of facts_by_scheme[scheme_tag], in insertion order
FieldOrder(table, scheme_tag) == Dedupe(FieldsFrom(table, scheme_tag, 1))

\* lines 131-140: the entries that normalize to a number, from entry i on
NormalizedEntry(v, norm_val) ==
    IF norm_val = NoneVal THEN <<>>
    ELSE << [source_id  |-> v.source_id,
             value      |-> v.value,
             normalized |-> norm_val,
             priority   |-> v.priority] >>

RECURSIVE NormalizedFrom(_, _, _)
NormalizedFrom(values, field, i) ==
    IF i > Len(values) THEN <<>>
    ELSE NormalizedEntry(values[i], _normalize_value(values[i].value, field))
         \o NormalizedFrom(values, field, i + 1)

Normalized(values, field) == NormalizedFrom(values, field, 1)

\* lines 148-161: the record of one (authoritative, other) pair
ConflictRecord(scheme_tag, field, authoritative, other, clock) ==
    [scheme_tag             |-> scheme_tag,
     field                  |-> field,
     authoritative_source   |-> authoritative.source_id,
     authoritative_value    |-> authoritative.value,
     conflicting_source     |-> other.source_id,
     conflicting_value      |-> other.value,
     authoritative_priority |-> authoritative.priority,
     conflicting_priority   |-> other.priority,
     detected_at            |-> clock]

\* lines 149-161: compare the highest priority entry with entry k and the later ones
RECURSIVE CompareFrom(_, _, _, _, _)
CompareFrom(scheme_tag, field, normalized, k, clock) ==
    IF k > Len(normalized) THEN <<>>
    ELSE IF _values_conflict(normalized[1].normalized, normalized[k].normalized, field)
    THEN <<ConflictRecord(scheme_tag, field, normalized[1], normalized[k], clock)>>
         \o CompareFrom(scheme_tag, field, normalized, k + 1, clock)
    ELSE CompareFrom(scheme_tag, field, normalized, k + 1, clock)

\* lines 143-161
CompareWithTop(scheme_tag, field, normalized, clock) ==
    LET sorted == SortByPriority(normalized)
    IN IF Len(sorted) < 2 THEN <<>>
       ELSE CompareFrom(scheme_tag, field, sorted, 2, clock)

\* lines 127-161 for one (scheme_tag, field)
ConflictsIn(scheme_tag, field, values, clock) ==
    IF Len(values) < 2 THEN <<>>
    ELSE CompareWithTop(scheme_tag, field, Normalized(values, field), clock)

ConflictsOf(table, scheme_tag, field, clock) ==
    ConflictsIn(scheme_tag, field, FactsOf(table, scheme_tag, field), clock)

\* line 126: the fields of one scheme, from field k of its dict on
RECURSIVE SchemeConflictsFrom(_, _, _, _, _)
SchemeConflictsFrom(table, scheme_tag, fs, k, clock) ==
    IF k > Len(fs) THEN <<>>
    ELSE ConflictsOf(table, scheme_tag, fs[k], clock)
         \o SchemeConflictsFrom(table, scheme_tag, fs, k + 1, clock)

\* line 125: the schemes, from scheme j of the dict on
RECURSIVE AllConflictsFrom(_, _, _, _)
AllConflictsFrom(table, schemes, j, clock) ==
    IF j > Len(schemes) THEN <<>>
    ELSE SchemeConflictsFrom(table, schemes[j], FieldOrder(table, schemes[j]), 1, clock)
         \o AllConflictsFrom(table, schemes, j + 1, clock)

\* ConflictDetector.detect_conflicts on the fact table, reading the clock
detect_conflicts(table, clock) == AllConflictsFrom(table, SchemeOrder(table), 1, clock)

\* ConflictDetector.get_resolved_value: <<value, source_id>>, <<>> for (None, None)
get_resolved_value(table, scheme_tag, field) ==
    LET candidates == SortByPriority(FactsOf(table, scheme_tag, field))
    IN IF Len(candidates) = 0 THEN <<>>
       ELSE <<candidates[1].value, candidates[1].source_id>>

----------------------------------------------------------------------------
(* Inputs of the conflict detector *)

SchemeTags == {"ELSS", "LARGE_CAP"}

\* source ids of the fact table with the scheme each source documents
FactSources ==
    { [source_id |-> <<"amc", "elss", "sid">>, scheme_tag |-> "ELSS"],
      [source_id |-> <<"amc", "elss", "kim">>, scheme_tag |-> "ELSS"],
      [source_id |-> <<"amc", "largecap", "sid">>, scheme_tag |-> "LARGE_CAP"] }

\* the values the documents of the ELSS scheme give for a field
FactValues(field) ==
    CASE field = "exit_load" ->
            { <<"2", "%">>, <<"1", ".", "5", "0", "%">>, <<"2">> }
      [] field = "expense_ratio" ->
            { <<"2", ".", "0", "0", "%">>, <<"2", ".", "0", "1", " ", "%">> }
      [] field = "min_sip" ->
            { <<"R", "s", ".", " ", "5", "0", "0">>, <<"₹", "5", ",", "0", "0", "0">> }
      [] field = "min_lumpsum" ->
            { <<"R", "s", ".", " ", "1", "0", "0">>, <<"₹", "1", "1", "0">>,
              <<"₹", "5", ",", "0", "0", "0">> }
      [] field = "lock_in" ->
            { <<"3", " ", "Y">>, <<"3", "6", " ", "m", "o", "n", "t", "h", "s">>,
              <<"5", " ", "Y">> }

\* the value the document of the LARGE_CAP scheme gives for a field
OtherSchemeValue(field) ==
    CASE field = "exit_load" -> <<"1", ".", "5", "0", "%">>
      [] field = "expense_ratio" -> <<"2", ".", "0", "1", " ", "%">>
      [] field = "min_sip" -> <<"₹", "5", ",", "0", "0", "0">>
      [] field = "min_lumpsum" -> <<"₹", "5", ",", "0", "0", "0">>
      [] field = "lock_in" -> <<"N", "i", "l">>

SourceValues(src, field) ==
    IF src.scheme_tag = "ELSS" THEN FactValues(field) ELSE {OtherSchemeValue(field)}

EmptyValues == [f \in FieldSet |-> <<>>]

\* the rows that carry a value of the field f only
RowsFor(f) ==
    UNION { { [source_id  |-> src.source_id,
               scheme_tag |-> src.scheme_tag,
               values     |-> [EmptyValues EXCEPT ![f] = v]] : v \in SourceValues(src, f) } :
            src \in FactSources }

----------------------------------------------------------------------------
(* The conflict detector as a state machine *)

InitConflict ==
    /\ \E f \in FieldSet : facts \in [1..MaxRows -> RowsFor(f)]
    /\ now = 0
    /\ conflicts = <<>>
    /\ previous = <<>>
    /\ runs = 0
    /\ resolved = <<"unset">>
    /\ chunks = <<>>
    /\ store = <<>>
    /\ result = <<>>
    /\ metadata = <<>>
    /\ use_reranker = FALSE
    /\ retrieved = <<>>
    /\ IdleRest

\* time passes between two runs; the clock counts from the first run
Tick ==
    /\ runs >= 1
    /\ now < MaxClock
    /\ now' = now + 1
    /\ UNCHANGED <<facts, conflicts, previous, runs, resolved>>
    /\ UNCHANGED exVars
    /\ UNCHANGED rtVars
    /\ UNCHANGED restVars

\* the records of s, from entry k on, that differ from every record of seen
\* in some attribute other than detected_at
RECURSIVE NewRecordsFrom(_, _, _)
NewRecordsFrom(s, k, seen) ==
    IF k > Len(s) THEN <<>>
    ELSE IF \E j \in 1..Len(seen) : [seen[j] EXCEPT !.detected_at = 0] = [s[k] EXCEPT !.detected_at = 0]
    THEN NewRecordsFrom(s, k + 1, seen)
    ELSE <<s[k]>> \o NewRecordsFrom(s, k + 1, seen)

\* variant of DetectConflicts: a run reports only what the last run did not
DetectConflictsOnlyNew ==
    /\ conflicts' = NewRecordsFrom(detect_conflicts(facts, now), 1, conflicts)
    /\ previous' = conflicts
    /\ runs' = Min2(runs + 1, 2)
    /\ UNCHANGED <<facts, now, resolved>>
    /\ UNCHANGED exVars
    /\ UNCHANGED rtVars
    /\ UNCHANGED restVars

DetectConflicts ==
    /\ conflicts' = detect_conflicts(facts, now)
    /\ previous' = conflicts
    /\ runs' = Min2(runs + 1, 2)
    /\ UNCHANGED <<facts, now, resolved>>
    /\ UNCHANGED exVars
    /\ UNCHANGED rtVars
    /\ UNCHANGED restVars

GetResolvedValue ==
    \E s \in SchemeTags, f \in FieldSet :
        /\ resolved' = get_resolved_value(facts, s, f)
        /\ UNCHANGED <<facts, now, conflicts, previous, runs>>
        /\ UNCHANGED exVars
        /\ UNCHANGED rtVars
        /\ UNCHANGED restVars

\* a run of the detector and look-ups of resolved values
NextResolve == DetectConflicts \/ GetResolvedValue

SpecResolve == InitConflict /\ [][NextResolve]_vars

\* repeated runs of the detector while the clock advances
NextRuns == DetectConflicts \/ Tick

SpecRuns == InitConflict /\ [][NextRuns]_vars

----------------------------------------------------------------------------
(* Claims about the conflict detector *)

\* a field's normalization as the data model names the fields: min_sip is a
\* currency amount like min_lumpsum
FieldNormalize(value, field) ==
    _normalize_value(value, IF field = "min_sip" THEN "minimum_sip" ELSE field)

\* the field tolerance: 0.01 for percentages, 10 rupees for amounts, none for lock-in
Tolerance(field) ==
    IF field \in {"expense_ratio", "exit_load"} THEN Scale \div 100
    ELSE IF field \in {"min_sip", "min_lumpsum"} THEN 10 * Scale
    ELSE 0

\* the rows of (scheme_tag, field) that bear a parseable value
ParseableRows(scheme_tag, field) ==
    {i \in 1..Len(facts) :
        /\ facts[i].scheme_tag = scheme_tag
        /\ ~IsBlankFact(RowValue(facts[i], field))
        /\ FieldNormalize(RowValue(facts[i], field), field) # NoneVal}

\* the most authoritative of the rows P: highest priority, first in the file on a tie
TopRow(P) ==
    CHOOSE i \in P : \A j \in P :
        \/ _get_source_priority(facts[i].source_id) > _get_source_priority(facts[j].source_id)
        \/ /\ _get_source_priority(facts[i].source_id) = _get_source_priority(facts[j].source_id)
           /\ i <= j

\* the rows of P whose value differs from the top row's by more than the tolerance
DivergingRows(P, field) ==
    {i \in P \ {TopRow(P)} :
        AbsDiff(FieldNormalize(RowValue(facts[i], field), field),
                FieldNormalize(RowValue(facts[TopRow(P)], field), field)) > Tolerance(field)}

RecordsOf(scheme_tag, field) ==
    {k \in 1..Len(conflicts) :
        conflicts[k].scheme_tag = scheme_tag /\ conflicts[k].field = field}

\* C7: after a run, every (scheme_tag, field) with at least two parseable rows
\* has exactly one ConflictRecord for each non-top row whose normalized value
\* differs from the top row's by more than the field tolerance.
C7_OneRecordPerDivergingSource ==
    runs >= 1 =>
        \A s \in SchemeTags, f \in FieldSet :
            LET P == ParseableRows(s, f)
            IN Cardinality(P) >= 2 =>
                /\ Cardinality(RecordsOf(s, f)) = Cardinality(DivergingRows(P, f))
                /\ \A i \in DivergingRows(P, f) : \E k \in RecordsOf(s, f) :
                      /\ conflicts[k].conflicting_source = facts[i].source_id
                      /\ conflicts[k].conflicting_value = RowValue(facts[i], f)
                      /\ conflicts[k].authoritative_source = facts[TopRow(P)].source_id
                      /\ conflicts[k].authoritative_value = RowValue(facts[TopRow(P)], f)

WithoutTime(s) == {[s[k] EXCEPT !.detected_at = 0] : k \in 1..Len(s)}

C9_AuthoritativeIsResolved ==
    \A k \in 1..Len(conflicts) :
        get_resolved_value(facts, conflicts[k].scheme_tag, conflicts[k].field)
            = <<conflicts[k].authoritative_value, conflicts[k].authoritative_source>>

\* C10: every emitted ConflictRecord is about a (scheme_tag, field) with at
\* least two parseable rows, its two normalized values differ by more than the
\* field tolerance, and its authoritative source has the priority of its
\* conflicting source or a higher one.
C10_RecordsAreRealConflicts ==
    \A k \in 1..Len(conflicts) :
        LET r == conflicts[k]
            a == FieldNormalize(r.authoritative_value, r.field)
            c == FieldNormalize(r.conflicting_value, r.field)
        IN /\ Cardinality(ParseableRows(r.scheme_tag, r.field)) >= 2
           /\ a # NoneVal /\ c # NoneVal
           /\ AbsDiff(a, c) > Tolerance(r.field)
           /\ r.authoritative_priority = _get_source_priority(r.authoritative_source)
           /\ r.conflicting_priority = _get_source_priority(r.conflicting_source)
           /\ r.authoritative_priority >= r.conflicting_priority

\* a run that reported a conflict between sources of different priority
C10_Witness ==
    /\ runs >= 1
    /\ \E k \in 1..Len(conflicts) :
          conflicts[k].authoritative_priority > conflicts[k].conflicting_priority

----------------------------------------------------------------------------
(* rag_qa_llm.py: the strict metric extractor.                             *)
(* Queries, scheme names and chunk texts are sequences of one-character    *)
(* strings; a source type is the sequence of its underscore-separated      *)
(* words, and "key in source_type" is the occurrence of key among them.    *)

SidPdf == <<"sid", "pdf">>

KimPdf == <<"kim", "pdf">>

FactsheetConsolidated == <<"factsheet", "consolidated">>

SchemeOverview == <<"scheme", "overview">>

Regulatory == <<"regulatory">>

HasWord(words, key) == \E i \in 1..Len(words) : words[i] = key

\* authority_map.get(source_type, 5): a lower number is a higher authority
_get_source_authority_priority(source_type) ==
    IF source_type = SidPdf THEN 1
    ELSE IF source_type = KimPdf THEN 2
    ELSE IF source_type = FactsheetConsolidated THEN 3
    ELSE IF source_type = SchemeOverview THEN 4
    ELSE 5

\* the labels of the scheme documents and of the summaries exchanged
ConfidenceInverted(source_type, numeric_match, normalized) ==
    IF ~numeric_match THEN "LOW"
    ELSE IF source_type \in {SidPdf, KimPdf} THEN "MEDIUM"
    ELSE IF source_type \in {FactsheetConsolidated, SchemeOverview} THEN "HIGH"
    ELSE "LOW"

\* RAGQALLM._calculate_confidence
_calculate_confidence(source_type, numeric_match, normalized) ==
    IF ~numeric_match THEN "LOW"
    ELSE IF source_type \in {SidPdf, KimPdf} THEN "HIGH"
    ELSE IF source_type \in {FactsheetConsolidated, SchemeOverview} THEN "MEDIUM"
    ELSE "LOW"

\* a literal of a re.IGNORECASE pattern at position i (lit in lower case):
\* the position behind it, or 0
MatchLiteral(s, i, lit) ==
    IF i >= 1 /\ i + Len(lit) - 1 <= Len(s) /\ Lower(SubSeq(s, i, i + Len(lit) - 1)) = lit
    THEN i + Len(lit)
    ELSE 0

\* the first element of the sequence ends that lies in the set good, or 0
FirstIn(ends, good) ==
    IF \E k \in 1..Len(ends) : ends[k] \in good
    THEN ends[CHOOSE k \in 1..Len(ends) :
                  /\ ends[k] \in good
                  /\ \A j \in 1..(k - 1) : ends[j] \notin good]
    ELSE 0

\* (?:\.[0-9]{1,2})? behind an integer part that ends before e: the positions
\* behind the group, in the order the greedy quantifiers try them
FractionEnds(s, e) ==
    LET n == IF e <= Len(s) /\ s[e] = "." THEN Min2(DigitRunEnd(s, e + 1) - (e + 1), 2) ELSE 0
    IN IF n = 2 THEN <<e + 3, e + 2, e>>
       ELSE IF n = 1 THEN <<e + 2, e>>
       ELSE <<e>>

\* ([0-9]{1,3}(?:\.[0-9]{1,2})?) at position i: the positions behind the
\* group, in backtracking order
NumberEnds(s, i) ==
    LET n == IF i <= Len(s) THEN Min2(DigitRunEnd(s, i) - i, 3) ELSE 0
    IN IF n = 3 THEN FractionEnds(s, i + 3) \o FractionEnds(s, i + 2) \o FractionEnds(s, i + 1)
       ELSE IF n = 2 THEN FractionEnds(s, i + 2) \o FractionEnds(s, i + 1)
       ELSE IF n = 1 THEN FractionEnds(s, i + 1)
       ELSE <<>>

\* \s?% at position e: the position behind the percent sign, or 0
PercentAfter(s, e) ==
    IF e + 1 <= Len(s) /\ IsSpace(s[e]) /\ s[e + 1] = "%" THEN e + 2
    ELSE IF e <= Len(s) /\ s[e] = "%" THEN e + 1
    ELSE 0

\* the positions that \s?% follows
BeforePercent(s) == {e \in 1..(Len(s) + 1) : PercentAfter(s, e) # 0}

\* exit\s*load at position i: the position behind it, or 0
ExitLoadAt(s, i) ==
    LET a == MatchLiteral(s, i, <<"e", "x", "i", "t">>)
    IN IF a = 0 THEN 0 ELSE MatchLiteral(s, SpaceRunEnd(s, a), <<"l", "o", "a", "d">>)

NoMatch == [found |-> FALSE, value |-> <<>>]

\* [^.]*?([0-9]{1,3}(?:\.[0-9]{1,2})?)\s?% from position j on: <<start, end>>
\* of the group, or <<>>
RECURSIVE LazyPercent(_, _)
LazyPercent(s, j) ==
    IF j > Len(s) THEN <<>>
    ELSE LET e == FirstIn(NumberEnds(s, j), BeforePercent(s))
         IN IF e # 0 THEN <<j, e>>
            ELSE IF s[j] = "." THEN <<>>
            ELSE LazyPercent(s, j + 1)

\* [^.]*?nil from position j on: the position behind the match, or 0
RECURSIVE LazyNil(_, _)
LazyNil(s, j) ==
    IF MatchLiteral(s, j, <<"n", "i", "l">>) # 0 THEN MatchLiteral(s, j, <<"n", "i", "l">>)
    ELSE IF j > Len(s) \/ s[j] = "." THEN 0
    ELSE LazyNil(s, j + 1)

\* re.search(r'exit\s*load[^.]*?([0-9]{1,3}(?:\.[0-9]{1,2})?)\s?%'), from i on
RECURSIVE ExitLoadPattern1(_, _)
ExitLoadPattern1(s, i) ==
    IF i > Len(s) THEN NoMatch
    ELSE LET m == ExitLoadAt(s, i)
             g == IF m # 0 THEN LazyPercent(s, m) ELSE <<>>
         IN IF g # <<>> THEN [found |-> TRUE, value |-> SubSeq(s, g[1], g[2] - 1)]
            ELSE ExitLoadPattern1(s, i + 1)

\* re.search(r'([0-9]{1,3}(?:\.[0-9]{1,2})?)\s?%\s*exit\s*load'), from i on
RECURSIVE ExitLoadPattern2(_, _)
ExitLoadPattern2(s, i) ==
    IF i > Len(s) THEN NoMatch
    ELSE LET good == {e \in BeforePercent(s) :
                         ExitLoadAt(s, SpaceRunEnd(s, PercentAfter(s, e))) # 0}
             e == FirstIn(NumberEnds(s, i), good)
         IN IF e # 0 THEN [found |-> TRUE, value |-> SubSeq(s, i, e - 1)]
            ELSE ExitLoadPattern2(s, i + 1)

\* re.search(r'exit\s*load[^.]*?nil'), from i on; the value is the whole match
RECURSIVE ExitLoadPattern3(_, _)
ExitLoadPattern3(s, i) ==
    IF i > Len(s) THEN NoMatch
    ELSE LET m == ExitLoadAt(s, i)
             e == IF m # 0 THEN LazyNil(s, m) ELSE 0
         IN IF e # 0 THEN [found |-> TRUE, value |-> SubSeq(s, i, e - 1)]
            ELSE ExitLoadPattern3(s, i + 1)

\* RAGQALLM._extract_numeric_pattern: the patterns of the field in list order.
\* The model's queries name exit_load only; the lists of the other fields are
\* not modelled.
_extract_numeric_pattern(text, field) ==
    CASE field = "exit_load" ->
            IF ExitLoadPattern1(text, 1).found THEN ExitLoadPattern1(text, 1)
            ELSE IF ExitLoadPattern2(text, 1).found THEN ExitLoadPattern2(text, 1)
            ELSE ExitLoadPattern3(text, 1)

DigitChar(d) == CHOOSE c \in Digits : DigitVal(c) = d

\* str(n) of a natural number
RECURSIVE IntToChars(_)
IntToChars(n) ==
    IF n < 10 THEN <<DigitChar(n)>>
    ELSE IntToChars(n \div 10) \o <<DigitChar(n % 10)>>

\* f"{float(num):.2f}%" of the literal num = digits[.digits], at most two decimals
FormatPercent(num) ==
    LET e1 == DigitRunEnd(num, 1)
        frac == IF e1 < Len(num) THEN SubSeq(num, e1 + 1, Len(num)) ELSE <<>>
    IN IntToChars(DigitsValue(num, 1, e1)) \o <<".">>
       \o (IF Len(frac) = 0 THEN <<"0", "0">>
           ELSE IF Len(frac) = 1 THEN frac \o <<"0">>
           ELSE frac)
       \o <<"%">>

\* re.search(r'([0-9]{1,3}(?:\.[0-9]{1,2})?)\s?%', value), from i on: group 1
RECURSIVE PctMatch(_, _)
PctMatch(s, i) ==
    IF i > Len(s) THEN NoMatch
    ELSE LET e == FirstIn(NumberEnds(s, i), BeforePercent(s))
         IN IF e # 0 THEN [found |-> TRUE, value |-> SubSeq(s, i, e - 1)]
            ELSE PctMatch(s, i + 1)

\* re.search(r'([0-9]{1,3}(?:\.[0-9]{1,2})?)', value), from i on: group 1
RECURSIVE NumMatch(_, _)
NumMatch(s, i) ==
    IF i > Len(s) THEN NoMatch
    ELSE IF NumberEnds(s, i) # <<>>
    THEN [found |-> TRUE, value |-> SubSeq(s, i, NumberEnds(s, i)[1] - 1)]
    ELSE NumMatch(s, i + 1)

\* RAGQALLM._normalize_metric_value for a percentage field. A value that
\* reaches the later branches of the code has no digit, and those branches
\* (currency, lock-in) need one: the value is returned stripped.
_normalize_metric_value(value, field) ==
    CASE field \in {"exit_load", "expense_ratio", "ter"} ->
            IF PctMatch(value, 1).found THEN FormatPercent(PctMatch(value, 1).value)
            ELSE IF NumMatch(value, 1).found THEN FormatPercent(NumMatch(value, 1).value)
            ELSE Strip(value)

\* RAGQALLM._identify_field_from_query: field_map in dict order
field_map ==
    << <<"exit_load", {<<"e", "x", "i", "t", " ", "l", "o", "a", "d">>, <<"r", "e", "d", "e", "m", "p", "t", "i", "o", "n", " ", "c", "h", "a", "r", "g", "e">>, <<"e", "x", "i", "t", " ", "c", "h", "a", "r", "g", "e">>}>>,
       <<"expense_ratio", {<<"e", "x", "p", "e", "n", "s", "e", " ", "r", "a", "t", "i", "o">>, <<"t", "e", "r">>, <<"t", "o", "t", "a", "l", " ", "e", "x", "p", "e", "n", "s", "e", " ", "r", "a", "t", "i", "o">>}>>,
       <<"minimum_sip", {<<"m", "i", "n", "i", "m", "u", "m", " ", "s", "i", "p">>, <<"m", "i", "n", " ", "s", "i", "p">>, <<"m", "i", "n", "i", "m", "u", "m", " ", "i", "n", "v", "e", "s", "t", "m", "e", "n", "t">>}>>,
       <<"min_lumpsum", {<<"m", "i", "n", "i", "m", "u", "m", " ", "l", "u", "m", "p", "s", "u", "m">>, <<"m", "i", "n", " ", "l", "u", "m", "p", "s", "u", "m">>,
                         <<"m", "i", "n", "i", "m", "u", "m", " ", "a", "p", "p", "l", "i", "c", "a", "t", "i", "o", "n">>, <<"m", "i", "n", " ", "a", "p", "p", "l", "i", "c", "a", "t", "i", "o", "n">>}>>,
       <<"lock_in", {<<"l", "o", "c", "k", "-", "i", "n">>, <<"l", "o", "c", "k", " ", "i", "n">>, <<"l", "o", "c", "k", "i", "n">>}>>,
       <<"benchmark", {<<"b", "e", "n", "c", "h", "m", "a", "r", "k">>, <<"b", "e", "n", "c", "h", "m", "a", "r", "k", " ", "i", "n", "d", "e", "x">>}>>,
       <<"riskometer", {<<"r", "i", "s", "k", "o", "m", "e", "t", "e", "r">>, <<"r", "i", "s", "k", "-", "o", "-", "m", "e", "t", "e", "r">>, <<"r", "i", "s", "k", " ", "m", "e", "t", "e", "r">>}>> >>

\* the first field with a keyword in the lower-cased query, "" for None
RECURSIVE FieldFrom(_, _)
FieldFrom(query_lower, k) ==
    IF k > Len(field_map) THEN ""
    ELSE IF \E kw \in field_map[k][2] : Contains(query_lower, kw) THEN field_map[k][1]
    ELSE FieldFrom(query_lower, k + 1)

_identify_field_from_query(query) == FieldFrom(Lower(query), 1)

\* lines 2281-2285
metric_keywords ==
    { <<"m", "i", "n", "i", "m", "u", "m", " ", "s", "i", "p">>, <<"m", "i", "n", "i", "m", "u", "m", " ", "l", "u", "m", "p", "s", "u", "m">>, <<"e", "x", "i", "t", " ", "l", "o", "a", "d">>, <<"l", "o", "c", "k", "-", "i", "n">>, <<"l", "o", "c", "k", " ", "i", "n">>,
      <<"e", "x", "p", "e", "n", "s", "e", " ", "r", "a", "t", "i", "o">>, <<"t", "e", "r">>, <<"b", "e", "n", "c", "h", "m", "a", "r", "k">>, <<"r", "i", "s", "k", "o", "m", "e", "t", "e", "r">>, <<"n", "a", "v">>, <<"a", "m", "o", "u", "n", "t">>,
      <<"p", "e", "r", "c", "e", "n", "t", "a", "g", "e">>, <<"p", "e", "r", "c", "e", "n", "t">>, <<"%">> }

\* position of the first colon of s, or 0
FirstColon(s) ==
    IF \E i \in 1..Len(s) : s[i] = ":"
    THEN CHOOSE i \in 1..Len(s) : s[i] = ":" /\ \A j \in 1..(i - 1) : s[j] # ":"
    ELSE 0

\* the first position >= j that holds "." or starts "Source" (any case), or 0
RECURSIVE TerminatorFrom(_, _)
TerminatorFrom(s, j) ==
    IF j > Len(s) THEN 0
    ELSE IF s[j] = "." \/ MatchLiteral(s, j, <<"s", "o", "u", "r", "c", "e">>) # 0 THEN j
    ELSE TerminatorFrom(s, j + 1)

\* the first position >= j that holds ".", or the position behind the text
RECURSIVE DotOrEndFrom(_, _)
DotOrEndFrom(s, j) ==
    IF j > Len(s) \/ s[j] = "." THEN j ELSE DotOrEndFrom(s, j + 1)

\* re.search(r':\s*([^.]*?)(?:\.|Source)', chunk_text, re.IGNORECASE): the
\* leftmost colon matches if any colon does
FieldValuePattern1(s) ==
    LET c == FirstColon(s)
        k == SpaceRunEnd(s, c + 1)
        t == TerminatorFrom(s, k)
    IN IF c = 0 \/ t = 0 THEN NoMatch
       ELSE [found |-> TRUE, value |-> SubSeq(s, k, t - 1)]

\* re.search(r':\s*([^.]*?)(?:\.|$)', chunk_text, re.IGNORECASE)
FieldValuePattern2(s) ==
    LET c == FirstColon(s)
        k == SpaceRunEnd(s, c + 1)
    IN IF c = 0 THEN NoMatch
       ELSE [found |-> TRUE, value |-> SubSeq(s, k, DotOrEndFrom(s, k) - 1)]

\* lines 2181-2190: the patterns in list order. The third, r'\(TER\):...',
\* needs a colon, and the second matches every text with a colon.
FieldValueMatch(s) ==
    IF FieldValuePattern1(s).found THEN FieldValuePattern1(s) ELSE FieldValuePattern2(s)

\* re.sub(r'\s+', ' ', s)
RECURSIVE CollapseSpaces(_)
CollapseSpaces(s) ==
    IF Len(s) < 2 THEN s
    ELSE IF IsSpace(s[1]) /\ IsSpace(s[2]) THEN CollapseSpaces(Tail(s))
    ELSE <<s[1]>> \o CollapseSpaces(Tail(s))

\* lines 2193-2195
CleanValue(value) == Strip(CollapseSpaces(Strip(value)))

\* chunk.get('chunk_text') or chunk.get('text', '')
ChunkText(chunk) == IF chunk.chunk_text # <<>> THEN chunk.chunk_text ELSE chunk.text

NotFound ==
    [found |-> FALSE, value |-> <<>>, source_type |-> <<>>, source_id |-> <<>>,
     confidence |-> "", path |-> 0]

\* lines 2172-2192: the first supplied chunk tagged with the field whose text
\* holds a value, or 0
RECURSIVE FirstFieldChunk(_, _, _)
FirstFieldChunk(list, field, i) ==
    IF i > Len(list) THEN 0
    ELSE IF list[i].field = field /\ FieldValueMatch(ChunkText(list[i])).found THEN i
    ELSE FirstFieldChunk(list, field, i + 1)

\* lines 2193-2242: the result built from a field-tagged chunk
FieldChunkResult(chunk) ==
    [found       |-> TRUE,
     value       |-> CleanValue(FieldValueMatch(ChunkText(chunk)).value),
     source_type |-> chunk.source_type,
     source_id   |-> chunk.source_id,
     confidence  |-> IF HasWord(chunk.source_type, "sid") THEN "HIGH"
                     ELSE IF HasWord(chunk.source_type, "kim") THEN "HIGH"
                     ELSE IF HasWord(chunk.source_type, "factsheet") THEN "MEDIUM"
                     ELSE "MEDIUM",
     path        |-> 1]

\* _get_direct_chunk_from_file, lines 3246-3257: the tag a scheme name maps to
DirectSchemeTag(scheme_name) ==
    LET n == Lower(scheme_name)
    IN IF Contains(n, <<"l", "a", "r", "g", "e", " ", "c", "a", "p">>) THEN "LARGE_CAP"
       ELSE IF Contains(n, <<"f", "l", "e", "x", "i", " ", "c", "a", "p">>) THEN "FLEXI_CAP"
       ELSE IF Contains(n, <<"e", "l", "s", "s">>) \/ Contains(n, <<"t", "a", "x", "s", "a", "v", "e", "r">>) \/ Contains(n, <<"t", "a", "x", " ", "s", "a", "v", "e", "r">>)
       THEN "ELSS"
       ELSE IF Contains(n, <<"h", "y", "b", "r", "i", "d">>) THEN "HYBRID"
       ELSE ""

\* lines 3264-3286: the scan of the file from row i on; all_chunk is the index
\* of the latest ALL row seen. The tags of the rows are upper case.
RECURSIVE DirectFrom(_, _, _, _, _)
DirectFrom(rows, i, field, scheme_tag, all_chunk) ==
    IF i > Len(rows) THEN all_chunk
    ELSE IF rows[i].field # field THEN DirectFrom(rows, i + 1, field, scheme_tag, all_chunk)
    ELSE IF scheme_tag # "" /\ rows[i].scheme_tag = scheme_tag THEN i
    ELSE IF rows[i].scheme_tag = "ALL" THEN DirectFrom(rows, i + 1, field, scheme_tag, i)
    ELSE IF scheme_tag = "" THEN i
    ELSE DirectFrom(rows, i + 1, field, scheme_tag, all_chunk)

\* RAGQALLM._get_direct_chunk_from_file: the index of the row returned, 0 for None
_get_direct_chunk_from_file(file, field, scheme_name) ==
    IF ~file.exists THEN 0
    ELSE DirectFrom(file.rows, 1, field, DirectSchemeTag(scheme_name), 0)

\* lines 2246-2277: the result of the direct lookup, NotFound if it yields none
DirectResult(file, field, scheme_name) ==
    LET d == _get_direct_chunk_from_file(file, field, scheme_name)
    IN IF d = 0 THEN NotFound
       ELSE IF ~FieldValuePattern1(file.rows[d].chunk_text).found THEN NotFound
       ELSE [found       |-> TRUE,
             value       |-> CleanValue(FieldValuePattern1(file.rows[d].chunk_text).value),
             source_type |-> file.rows[d].source_type,
             source_id   |-> file.rows[d].source_id,
             confidence  |-> IF \/ HasWord(file.rows[d].source_type, "sid")
                                \/ HasWord(file.rows[d].source_type, "kim")
                             THEN "HIGH" ELSE "MEDIUM",
             path        |-> 2]

\* self.actual_schemes: the default list of _load_actual_schemes, sorted
actual_schemes ==
    << <<"H", "D", "F", "C", " ", "F", "l", "e", "x", "i", " ", "C", "a", "p", " ", "F", "u", "n", "d">>, <<"H", "D", "F", "C", " ", "H", "y", "b", "r", "i", "d", " ", "E", "q", "u", "i", "t", "y", " ", "F", "u", "n", "d">>,
       <<"H", "D", "F", "C", " ", "L", "a", "r", "g", "e", " ", "C", "a", "p", " ", "F", "u", "n", "d">>, <<"H", "D", "F", "C", " ", "T", "a", "x", "S", "a", "v", "e", "r", " ", "(", "E", "L", "S", "S", ")">> >>

IsTaxSaver(s_lower) ==
    Contains(s_lower, <<"e", "l", "s", "s">>) \/ Contains(s_lower, <<"t", "a", "x", "s", "a", "v", "e", "r">>) \/ Contains(s_lower, <<"t", "a", "x", " ", "s", "a", "v", "e", "r">>)

\* lines 2299-2304
SchemeNameMatches(scheme_name_lower, s_lower) ==
    \/ Contains(s_lower, scheme_name_lower)
    \/ Contains(scheme_name_lower, s_lower)
    \/ scheme_name_lower \in {<<"e", "l", "s", "s">>, <<"t", "a", "x", "s", "a", "v", "e", "r">>, <<"t", "a", "x", " ", "s", "a", "v", "e", "r">>} /\ IsTaxSaver(s_lower)

\* lines 2306-2313
TagOfScheme(s_lower) ==
    IF Contains(s_lower, <<"l", "a", "r", "g", "e", " ", "c", "a", "p">>) THEN "LARGE_CAP"
    ELSE IF Contains(s_lower, <<"f", "l", "e", "x", "i", " ", "c", "a", "p">>) THEN "FLEXI_CAP"
    ELSE IF IsTaxSaver(s_lower) THEN "ELSS"
    ELSE IF Contains(s_lower, <<"h", "y", "b", "r", "i", "d">>) THEN "HYBRID"
    ELSE ""

\* lines 2296-2314: the tag of the first actual scheme the name matches
RECURSIVE SchemeTagFrom(_, _)
SchemeTagFrom(scheme_name_lower, k) ==
    IF k > Len(actual_schemes) THEN ""
    ELSE IF SchemeNameMatches(scheme_name_lower, Lower(actual_schemes[k]))
    THEN TagOfScheme(Lower(actual_schemes[k]))
    ELSE SchemeTagFrom(scheme_name_lower, k + 1)

\* lines 2291-2317: the chunks the regex fallback looks at
SchemeFiltered(list, scheme_name) ==
    LET scheme_tag == IF scheme_name = <<>> THEN "" ELSE SchemeTagFrom(Lower(scheme_name), 1)
        OfScheme(c) == c.scheme_tag = scheme_tag
    IN IF scheme_tag = "" THEN list ELSE SelectSeq(list, OfScheme)

\* self.source_metadata[source_id]['source_type'] (data_raw/sources_loaded.json),
\* <<>> for a source the file does not list
source_metadata(source_id) ==
    IF HasWord(source_id, "sid") THEN SidPdf
    ELSE IF HasWord(source_id, "kim") THEN KimPdf
    ELSE IF HasWord(source_id, "factsheet") THEN FactsheetConsolidated
    ELSE IF HasWord(source_id, "overview") THEN SchemeOverview
    ELSE <<>>

\* lines 2325-2327
SourceTypeOf(chunk) ==
    IF chunk.source_type = <<>> THEN source_metadata(chunk.source_id) ELSE chunk.source_type

\* lines 2320-2361 for an exit_load query: the candidates in chunk order
RECURSIVE CandidatesFrom(_, _, _)
CandidatesFrom(list, field, i) ==
    IF i > Len(list) THEN <<>>
    ELSE IF _extract_numeric_pattern(list[i].text, field).found
    THEN << [value |-> _extract_numeric_pattern(list[i].text, field).value,
             source_type |-> SourceTypeOf(list[i]),
             source_id |-> list[i].source_id,
             authority_priority |-> _get_source_authority_priority(SourceTypeOf(list[i]))] >>
         \o CandidatesFrom(list, field, i + 1)
    ELSE CandidatesFrom(list, field, i + 1)

\* candidate_chunks.sort(key=authority_priority) is stable: candidate i moves
\* behind those of a smaller number and the earlier ones of its own number
AuthorityPosition(c, i) ==
    1 + Cardinality({j \in 1..Len(c) :
            \/ c[j].authority_priority < c[i].authority_priority
            \/ c[j].authority_priority = c[i].authority_priority /\ j < i})

SortByAuthority(c) ==
    [k \in 1..Len(c) |-> c[CHOOSE i \in 1..Len(c) : AuthorityPosition(c, i) = k]]

\* lines 2279-2438: the regex fallback over the texts of the chunks
RegexFallback(query, list, scheme_name, field) ==
    IF ~\E kw \in metric_keywords : Contains(Lower(query), kw) THEN NotFound
    ELSE LET candidate_chunks ==
                 SortByAuthority(CandidatesFrom(SchemeFiltered(list, scheme_name), field, 1))
         IN IF candidate_chunks = <<>> THEN NotFound
            ELSE [found       |-> TRUE,
                  value       |-> _normalize_metric_value(candidate_chunks[1].value, field),
                  source_type |-> candidate_chunks[1].source_type,
                  source_id   |-> candidate_chunks[1].source_id,
                  confidence  |-> _calculate_confidence(candidate_chunks[1].source_type, TRUE,
                                      _normalize_metric_value(candidate_chunks[1].value, field)
                                          # candidate_chunks[1].value),
                  path        |-> 3]

\* the extractor with the chunk store looked up before the supplied chunks
ExtractMetricStoreFirst(query, list, file, scheme_name) ==
    LET field == _identify_field_from_query(query)
        first == FirstFieldChunk(list, field, 1)
        direct == DirectResult(file, field, scheme_name)
    IN IF field = "" THEN NotFound
       ELSE IF direct.found THEN direct
       ELSE IF first # 0 THEN FieldChunkResult(list[first])
       ELSE RegexFallback(query, list, scheme_name, field)

\* RAGQALLM._extract_metric_strict, lines 2161-2438, with the chunk store file
\* it finds on disk
ExtractMetric(query, list, file, scheme_name) ==
    LET field == _identify_field_from_query(query)
        first == FirstFieldChunk(list, field, 1)
        tagged == \E i \in 1..Len(list) : list[i].field = field
        direct == IF tagged THEN NotFound ELSE DirectResult(file, field, scheme_name)
    IN IF field = "" THEN NotFound
       ELSE IF first # 0 THEN FieldChunkResult(list[first])
       ELSE IF direct.found THEN direct
       ELSE RegexFallback(query, list, scheme_name, field)

\* RAGQALLM._extract_metric_strict; the chunk store is the file on disk
_extract_metric_strict(query, list, scheme_name) ==
    ExtractMetric(query, list, store, scheme_name)

----------------------------------------------------------------------------
(* Inputs of the extractor *)

\* "exit load of elss" names the field and passes the keyword gate of the
\* fallback; "redemption charge" names the field only; "latest nav" names none
Queries == { <<"e", "x", "i", "t", " ", "l", "o", "a", "d", " ", "o", "f", " ", "e", "l", "s", "s">>, <<"R", "e", "d", "e", "m", "p", "t", "i", "o", "n", " ", "c", "h", "a", "r", "g", "e">>, <<"l", "a", "t", "e", "s", "t", " ", "n", "a", "v">> }

\* <<>> is None
SchemeNames == { <<>>, <<"E", "L", "S", "S">> }

Chunk(source_id, source_type, scheme_tag, field, chunk_text, text) ==
    [source_id |-> source_id, source_type |-> source_type, scheme_tag |-> scheme_tag,
     field |-> field, chunk_text |-> chunk_text, text |-> text]

\* canonical chunks of chunks_clean.jsonl ("Label: value. Source: ...")
FieldChunks ==
    { Chunk(<<"amc", "elss", "sid">>, SidPdf, "ELSS", "exit_load",
            <<"E", "x", "i", "t", " ", "L", "o", "a", "d", ":", " ", "1", "%", ".", " ", "S", "o", "u", "r", "c", "e", ":", " ", "s", "i", "d">>, <<>>),
      Chunk(<<"amc", "elss", "kim">>, KimPdf, "ELSS", "exit_load",
            <<>>, <<"E", "x", "i", "t", " ", "L", "o", "a", "d", ":", " ", " ", "2", " ", "%">>),
      Chunk(<<"amc", "elss", "factsheet">>, FactsheetConsolidated, "ELSS", "exit_load",
            <<"E", "x", "i", "t", " ", "L", "o", "a", "d", ":", " ", "3", ".", "0", "0", "%", ".", " ", "S", "o", "u", "r", "c", "e">>, <<>>),
      Chunk(<<"amfi", "rules">>, Regulatory, "ALL", "exit_load",
            <<"E", "x", "i", "t", " ", "L", "o", "a", "d", ":", " ", "N", "i", "l", " ", "S", "o", "u", "r", "c", "e">>, <<>>) }

\* chunks of running text, as the retriever returns them
TextChunks ==
    { Chunk(<<"amc", "elss", "sid">>, SidPdf, "ELSS", "",
            <<>>, <<"E", "x", "i", "t", " ", "l", "o", "a", "d", " ", "i", "s", " ", "1", ".", "5", "%">>),
      Chunk(<<"amc", "elss", "kim">>, <<>>, "ELSS", "",
            <<>>, <<"2", " ", "%", " ", "e", "x", "i", "t", " ", "l", "o", "a", "d">>),
      Chunk(<<"amc", "elss", "factsheet">>, FactsheetConsolidated, "ELSS", "",
            <<>>, <<"e", "x", "i", "t", " ", "l", "o", "a", "d", " ", "3", "%">>),
      Chunk(<<"amc", "largecap", "overview">>, SchemeOverview, "LARGE_CAP", "",
            <<>>, <<"e", "x", "i", "t", " ", "l", "o", "a", "d", ":", " ", "n", "i", "l", ".">>) }

ChunkPool == FieldChunks \cup TextChunks

NoFile == [exists |-> FALSE, rows |-> <<>>]

\* the chunk store: missing, or one of two files
Stores ==
    { NoFile,
      [exists |-> TRUE,
       rows |-> << Chunk(<<"amfi", "rules">>, Regulatory, "ALL", "exit_load",
                         <<"E", "x", "i", "t", " ", "L", "o", "a", "d", ":", " ", "4", "%", ".", " ", "S", "o", "u", "r", "c", "e">>, <<>>),
                   Chunk(<<"amc", "elss", "kim">>, KimPdf, "ELSS", "exit_load",
                         <<"E", "x", "i", "t", " ", "L", "o", "a", "d", ":", " ", "2", "%", ".", " ", "S", "o", "u", "r", "c", "e">>, <<>>) >>],
      [exists |-> TRUE,
       rows |-> << Chunk(<<"amc", "largecap", "overview">>, SchemeOverview, "LARGE_CAP",
                         "exit_load", <<"E", "x", "i", "t", " ", "L", "o", "a", "d", ":", " ", "5", "%", ".", " ", "S", "o", "u", "r", "c", "e">>, <<>>),
                   Chunk(<<"amfi", "rules">>, Regulatory, "ALL", "exit_load",
                         <<"E", "x", "i", "t", " ", "L", "o", "a", "d", ":", " ", "4", "%", ".", " ", "S", "o", "u", "r", "c", "e">>, <<>>) >>] }

NoCall == [called |-> FALSE, query |-> <<>>, scheme_name |-> <<>>, out |-> NotFound]

----------------------------------------------------------------------------
(* The extractor as a state machine *)

InitExtract ==
    /\ facts = <<>>
    /\ now = 0
    /\ conflicts = <<>>
    /\ previous = <<>>
    /\ runs = 0
    /\ resolved = <<"unset">>
    /\ \E n \in 0..MaxChunks : chunks \in [1..n -> ChunkPool]
    /\ store \in Stores
    /\ result = NoCall
    /\ metadata = <<>>
    /\ use_reranker = FALSE
    /\ retrieved = <<>>
    /\ IdleRest

\* one call of _extract_metric_strict on the supplied chunks
ExtractMetricStrict ==
    \E q \in Queries, n \in SchemeNames :
        /\ ~result.called
        /\ result' = [called |-> TRUE, query |-> q, scheme_name |-> n,
                      out |-> _extract_metric_strict(q, chunks, n)]
        /\ UNCHANGED <<chunks, store>>
        /\ UNCHANGED cdVars
        /\ UNCHANGED rtVars
        /\ UNCHANGED restVars

NextExtract == ExtractMetricStrict

SpecExtract == InitExtract /\ [][NextExtract]_vars

----------------------------------------------------------------------------
(* Claims about the extractor *)

\* the supplied chunk provides a value for the field: as a field-tagged
\* canonical chunk, or as free text the field's patterns match
Provides(chunk, field) ==
    \/ chunk.field = field /\ FieldValueMatch(ChunkText(chunk)).found
    \/ _extract_numeric_pattern(chunk.text, field).found

\* the supplied chunks of a source type that provide a value for the field
Providers(source_type, field) ==
    {i \in 1..Len(chunks) :
        SourceTypeOf(chunks[i]) = source_type /\ Provides(chunks[i], field)}

\* C1: when kim_pdf and factsheet_consolidated chunks (and possibly sid_pdf
\* chunks) of the supplied set provide a value for the field of the query, the
\* call returns the source of a providing sid_pdf chunk, or of a providing
\* kim_pdf chunk when no sid_pdf chunk provides one; never the factsheet's.
C1_MostAuthoritativeSourceWins ==
    LET field == _identify_field_from_query(result.query)
        best == IF Providers(SidPdf, field) # {} THEN SidPdf ELSE KimPdf
    IN (/\ result.called
        /\ field # ""
        /\ Providers(KimPdf, field) # {}
        /\ Providers(FactsheetConsolidated, field) # {})
       => /\ result.out.found
          /\ result.out.source_type = best
          /\ \E i \in Providers(best, field) : result.out.source_id = chunks[i].source_id

\* C6: the confidence of a returned value is HIGH exactly for sid_pdf and
\* kim_pdf, MEDIUM exactly for factsheet_consolidated and scheme_overview, and
\* LOW for every other source type, whichever path produced the value.
C6_ConfidenceBySourceType ==
    (result.called /\ result.out.found) =>
        result.out.confidence = _calculate_confidence(result.out.source_type, TRUE, FALSE)

----------------------------------------------------------------------------
(* Query classification (query_classifier.py)                              *)

Letters ==
    {"a", "b", "c", "d", "e", "f", "g", "h", "i", "j", "k", "l", "m",
     "n", "o", "p", "q", "r", "s", "t", "u", "v", "w", "x", "y", "z"}

\* \w of the re module, for ASCII text
IsWordChar(c) == LowerChar(c) \in Letters \cup Digits \cup {"_"}

\* \b at position p: exactly one of s[p-1], s[p] is a word character
WordBoundary(s, p) ==
    LET before == p > 1 /\ p - 1 <= Len(s) /\ IsWordChar(s[p - 1])
        after == p >= 1 /\ p <= Len(s) /\ IsWordChar(s[p])
    IN before # after

\* the literal lit between two \b, starting at position i
WordAt(s, i, lit) ==
    LET e == MatchLiteral(s, i, lit)
    IN e # 0 /\ WordBoundary(s, i) /\ WordBoundary(s, e)

\* re.search(r'\blit\b', s, re.IGNORECASE)
SearchWord(s, lit) == \E i \in 1..Len(s) : WordAt(s, i, lit)

\* re.search(r'\ba\b.*\bb\b', s, re.IGNORECASE), s without line breaks
SearchWordThenWord(s, a, b) ==
    \E i \in 1..Len(s) :
        /\ WordAt(s, i, a)
        /\ \E j \in (i + Len(a))..Len(s) : WordAt(s, j, b)

\* re.search(r'\btop\s+\d+\b', s, re.IGNORECASE)
SearchTopN(s) ==
    \E i \in 1..Len(s) :
        LET e == MatchLiteral(s, i, <<"t", "o", "p">>)
            d == SpaceRunEnd(s, e)
            n == DigitRunEnd(s, d)
        IN /\ e # 0
           /\ WordBoundary(s, i)
           /\ d > e
           /\ n > d
           /\ WordBoundary(s, n)

\* some pattern r'\blit\b' of the list matches
SearchAnyWord(s, lits) == \E k \in 1..Len(lits) : SearchWord(s, lits[k])

entity_patterns ==
    << <<"w", "h", "o">>, <<"m", "a", "n", "a", "g", "e", "r">>, <<"m", "a", "n", "a", "g", "e", "s">>, <<"f", "u", "n", "d", " ", "m", "a", "n", "a", "g", "e", "r">>,
       <<"i", "n", "v", "e", "s", "t", "m", "e", "n", "t", " ", "m", "a", "n", "a", "g", "e", "r">>, <<"p", "o", "r", "t", "f", "o", "l", "i", "o", " ", "m", "a", "n", "a", "g", "e", "r">>, <<"m", "a", "n", "a", "g", "e", "d", " ", "b", "y">> >>

metric_patterns ==
    << <<"e", "x", "p", "e", "n", "s", "e", " ", "r", "a", "t", "i", "o">>, <<"t", "e", "r">>, <<"t", "o", "t", "a", "l", " ", "e", "x", "p", "e", "n", "s", "e", " ", "r", "a", "t", "i", "o">>,
       <<"e", "x", "i", "t", " ", "l", "o", "a", "d">>, <<"r", "e", "d", "e", "m", "p", "t", "i", "o", "n", " ", "c", "h", "a", "r", "g", "e">>, <<"m", "i", "n", "i", "m", "u", "m", " ", "s", "i", "p">>,
       <<"m", "i", "n", "i", "m", "u", "m", " ", "i", "n", "v", "e", "s", "t", "m", "e", "n", "t">>, <<"m", "i", "n", "i", "m", "u", "m", " ", "a", "m", "o", "u", "n", "t">>, <<"l", "o", "c", "k", "-", "i", "n">>,
       <<"l", "o", "c", "k", " ", "i", "n">>, <<"r", "i", "s", "k", "o", "m", "e", "t", "e", "r">>, <<"r", "i", "s", "k", "-", "o", "-", "m", "e", "t", "e", "r">>, <<"b", "e", "n", "c", "h", "m", "a", "r", "k">> >>

\* the patterns of 'list' that are one literal between two \b
list_patterns ==
    << <<"t", "o", "p", " ", "h", "o", "l", "d", "i", "n", "g", "s">>, <<"p", "o", "r", "t", "f", "o", "l", "i", "o", " ", "c", "o", "m", "p", "o", "s", "i", "t", "i", "o", "n">>, <<"h", "o", "l", "d", "i", "n", "g", "s">>,
       <<"l", "i", "s", "t", " ", "o", "f">>, <<"a", "s", "s", "e", "t", " ", "a", "l", "l", "o", "c", "a", "t", "i", "o", "n">>, <<"s", "e", "c", "t", "o", "r", " ", "a", "l", "l", "o", "c", "a", "t", "i", "o", "n">> >>

\* the patterns of 'how_to' that are one literal between two \b
how_to_patterns ==
    << <<"h", "o", "w", " ", "t", "o">>, <<"h", "o", "w", " ", "d", "o", " ", "i">>, <<"h", "o", "w", " ", "c", "a", "n", " ", "i">>, <<"h", "o", "w", " ", "d", "o", " ", "y", "o", "u">>,
       <<"d", "o", "w", "n", "l", "o", "a", "d">>, <<"r", "e", "d", "e", "e", "m">>, <<"i", "n", "v", "e", "s", "t">>, <<"a", "p", "p", "l", "y">>,
       <<"w", "i", "t", "h", "d", "r", "a", "w">>, <<"s", "w", "i", "t", "c", "h">> >>

\* the patterns of 'comparison' that are one literal between two \b
comparison_patterns ==
    << <<"c", "o", "m", "p", "a", "r", "e">>, <<"d", "i", "f", "f", "e", "r", "e", "n", "c", "e">>, <<"v", "e", "r", "s", "u", "s">>, <<"v", "s">>, <<"w", "h", "i", "c", "h", " ", "i", "s", " ", "b", "e", "t", "t", "e", "r">> >>

\* the keys of self.patterns, in dict order (lines 13-38)
query_types == <<"entity", "metric", "list", "how_to", "comparison">>

\* some pattern of the type matches the lower-cased query q
type_matches(query_type, q) ==
    CASE query_type = "entity" -> SearchAnyWord(q, entity_patterns)
      [] query_type = "metric" -> SearchAnyWord(q, metric_patterns)
      [] query_type = "list" ->
             \/ SearchTopN(q)
             \/ SearchAnyWord(q, list_patterns)
             \/ SearchWordThenWord(q, <<"w", "h", "a", "t", " ", "a", "r", "e", " ", "t", "h", "e">>, <<"h", "o", "l", "d", "i", "n", "g", "s">>)
      [] query_type = "how_to" ->
             \/ SearchAnyWord(q, how_to_patterns)
             \/ SearchWordThenWord(q, <<"g", "e", "t">>, <<"s", "t", "a", "t", "e", "m", "e", "n", "t">>)
             \/ SearchWordThenWord(q, <<"g", "e", "t">>, <<"r", "e", "p", "o", "r", "t">>)
      [] query_type = "comparison" ->
             \/ SearchAnyWord(q, comparison_patterns)
             \/ SearchWordThenWord(q, <<"w", "h", "i", "c", "h", " ", "o", "n", "e">>, <<"b", "e", "t", "t", "e", "r">>)

\* the loop of classify from the type with index k on
RECURSIVE ClassifyFrom(_, _, _)
ClassifyFrom(q, order, k) ==
    IF k > Len(order) THEN "general"
    ELSE IF type_matches(order[k], q) THEN order[k]
    ELSE ClassifyFrom(q, order, k + 1)

\* classify with the metric patterns tried before the entity patterns
ClassifyMetricFirst(query) ==
    ClassifyFrom(Lower(query), <<"metric", "entity", "list", "how_to", "comparison">>, 1)

\* QueryClassifier.classify, lines 59-77: the types in the order of self.patterns
classify(query) == ClassifyFrom(Lower(query), query_types, 1)

----------------------------------------------------------------------------
(* Hierarchical retrieval (rag_retriever.py)                               *)
(*                                                                         *)
(* A chunk of self.metadata is a record [source_id, scheme_tag, field,     *)
(* text]; source ids are sequences of their underscore-separated words,    *)
(* texts are character sequences.  Positions are counted from 1; the label *)
(* -1 with which FAISS pads a short answer is written 0, and metadata[-1]  *)
(* is the last chunk.  None and the empty string are both written "", an   *)
(* absent candidate set is written {}: the code tests them for truth only. *)

FIELD_FILTER_THRESHOLD == 3

\* any(kw in query_lower for kw in keywords)
ContainsAny(s, keywords) == \E k \in 1..Len(keywords) : Contains(s, keywords[k])

\* RAGRetriever._identify_scheme_from_query
_identify_scheme_from_query(query) ==
    LET q == Lower(query)
    IN IF ContainsAny(q, << <<"l", "a", "r", "g", "e", " ", "c", "a", "p">>, <<"l", "a", "r", "g", "e", "c", "a", "p">>, <<"l", "a", "r", "g", "e", "-", "c", "a", "p">> >>) THEN "largecap"
       ELSE IF ContainsAny(q, << <<"f", "l", "e", "x", "i", " ", "c", "a", "p">>, <<"f", "l", "e", "x", "i", "c", "a", "p">>, <<"f", "l", "e", "x", "i", "-", "c", "a", "p">> >>) THEN "flexicap"
       ELSE IF ContainsAny(q, << <<"e", "l", "s", "s">>, <<"t", "a", "x", " ", "s", "a", "v", "e", "r">>, <<"t", "a", "x", "-", "s", "a", "v", "e", "r">>,
                                 <<"e", "q", "u", "i", "t", "y", " ", "l", "i", "n", "k", "e", "d", " ", "s", "a", "v", "i", "n", "g">> >>) THEN "elss"
       ELSE IF ContainsAny(q, << <<"h", "y", "b", "r", "i", "d">>, <<"h", "y", "b", "r", "i", "d", " ", "e", "q", "u", "i", "t", "y">> >>) THEN "hybrid"
       ELSE ""

\* RAGRetriever._identify_field_from_query
RAGRetriever_identify_field_from_query(query) ==
    LET q == Lower(query)
    IN IF ContainsAny(q, << <<"e", "x", "i", "t", " ", "l", "o", "a", "d">>, <<"r", "e", "d", "e", "m", "p", "t", "i", "o", "n", " ", "c", "h", "a", "r", "g", "e">>, <<"e", "x", "i", "t", " ", "c", "h", "a", "r", "g", "e">> >>)
       THEN "exit_load"
       ELSE IF ContainsAny(q, << <<"e", "x", "p", "e", "n", "s", "e", " ", "r", "a", "t", "i", "o">>, <<"t", "e", "r">>, <<"t", "o", "t", "a", "l", " ", "e", "x", "p", "e", "n", "s", "e", " ", "r", "a", "t", "i", "o">> >>)
       THEN "expense_ratio"
       ELSE IF ContainsAny(q, << <<"m", "i", "n", "i", "m", "u", "m", " ", "s", "i", "p">>, <<"m", "i", "n", " ", "s", "i", "p">>, <<"m", "i", "n", "i", "m", "u", "m", " ", "i", "n", "v", "e", "s", "t", "m", "e", "n", "t">> >>)
       THEN "minimum_sip"
       ELSE IF ContainsAny(q, << <<"l", "o", "c", "k", "-", "i", "n">>, <<"l", "o", "c", "k", " ", "i", "n">>, <<"l", "o", "c", "k", "i", "n">> >>) THEN "lock_in"
       ELSE IF ContainsAny(q, << <<"b", "e", "n", "c", "h", "m", "a", "r", "k">>, <<"b", "e", "n", "c", "h", "m", "a", "r", "k", " ", "i", "n", "d", "e", "x">> >>) THEN "benchmark"
       ELSE IF ContainsAny(q, << <<"r", "i", "s", "k", "o", "m", "e", "t", "e", "r">>, <<"r", "i", "s", "k", "-", "o", "-", "m", "e", "t", "e", "r">>, <<"r", "i", "s", "k", " ", "m", "e", "t", "e", "r">> >>)
       THEN "riskometer"
       ELSE ""

\* SCHEME_TAG_MAP.get(scheme_tag, scheme_tag)
SCHEME_TAG_MAP(scheme_tag) ==
    CASE scheme_tag = "largecap" -> "LARGE_CAP"
      [] scheme_tag = "flexicap" -> "FLEXI_CAP"
      [] scheme_tag = "elss" -> "ELSS"
      [] scheme_tag = "hybrid" -> "HYBRID"
      [] OTHER -> scheme_tag

\* self.scheme_indices[scheme_tag] of _build_index_maps; a tag is a key of
\* the map iff the set is not empty
scheme_indices(scheme_tag) ==
    {idx \in 1..Len(metadata) :
        metadata[idx].scheme_tag # "" /\ metadata[idx].scheme_tag = scheme_tag}

\* self.field_indices[(scheme_tag, field)] of _build_index_maps
field_indices(scheme_tag, field) ==
    {idx \in 1..Len(metadata) :
        /\ metadata[idx].scheme_tag # "" /\ metadata[idx].field # ""
        /\ metadata[idx].scheme_tag = scheme_tag /\ metadata[idx].field = field}

\* retrieve, hierarchical step 1: the candidate set of the scheme
SchemeCandidates(use_hierarchical, actual_scheme_tag) ==
    IF ~use_hierarchical THEN {}
    ELSE IF actual_scheme_tag # "" /\ scheme_indices(actual_scheme_tag) # {}
    THEN scheme_indices(actual_scheme_tag)
    ELSE 1..Len(metadata)

\* retrieve, hierarchical step 2: narrowed by the field of a metric query,
\* or widened by the ('ALL', field) chunks
candidate_indices(use_hierarchical, query_type, actual_scheme_tag, field) ==
    LET candidates == SchemeCandidates(use_hierarchical, actual_scheme_tag)
        of_field == field_indices(actual_scheme_tag, field)
        of_all == field_indices("ALL", field)
    IN IF use_hierarchical /\ query_type = "metric" /\ actual_scheme_tag # "" /\ field # ""
       THEN IF of_field # {}
            THEN IF Cardinality(of_field) >= FIELD_FILTER_THRESHOLD
                 THEN candidates \cap of_field
                 ELSE candidates
            ELSE candidates \cup of_all
       ELSE candidates

\* retrieve: the number of neighbours asked of the index
search_k(query_type, top_k, use_hierarchical, candidates) ==
    LET k == IF query_type = "entity" THEN Min2(top_k * 5, 40)
             ELSE IF query_type = "list" THEN Min2(top_k * 4, 35)
             ELSE IF query_type = "metric" THEN Min2(top_k * 3, 30)
             ELSE Min2(top_k * 3, 25)
    IN IF use_hierarchical /\ candidates # {} THEN Min2(k * 2, Len(metadata)) ELSE k

\* seq[:n] for n >= 0
Take(seq, n) == SubSeq(seq, 1, Min2(n, Len(seq)))

Elements(seq) == {seq[i] : i \in 1..Len(seq)}

Reversed(seq) == [i \in 1..Len(seq) |-> seq[Len(seq) + 1 - i]]

Rotated(seq, r) == [i \in 1..Len(seq) |-> seq[((i + r - 1) % Len(seq)) + 1]]

\* The orders of a sequence that a sort by scores the model leaves open
\* (similarities, relevance scores, cross-encoder scores) is taken to produce:
\* the rotations of the sequence and of its reverse, which are all its orders
\* when it has at most three elements.
Orders(seq) ==
    IF Len(seq) <= 1 THEN {seq}
    ELSE {Rotated(seq, r) : r \in 0..(Len(seq) - 1)}
         \cup {Reversed(Rotated(seq, r)) : r \in 0..(Len(seq) - 1)}

\* self.index.search(query_vector, k): the labels of the k nearest chunks,
\* nearest first, padded with -1 (written 0) when the index holds fewer
Searches(k) ==
    {[i \in 1..k |-> IF i <= Len(ranking) THEN ranking[i] ELSE 0] :
        ranking \in Orders([idx \in 1..Len(metadata) |-> idx])}

\* the filter without its fallback: the hits inside the candidate set, even
\* when there is none
FilterWithoutFallback(hits, use_hierarchical, candidates, k) ==
    IF use_hierarchical /\ candidates # {} /\ Cardinality(candidates) < Len(metadata)
    THEN LET IsCandidate(idx) == idx \in candidates
         IN Take(SelectSeq(hits, IsCandidate), k)
    ELSE hits

\* retrieve, lines 243-255: the hits inside the candidate set, or all hits when
\* none is inside; the hits arrive sorted by similarity, so the re-sort keeps
\* their order
hierarchical_filter(hits, use_hierarchical, candidates, k) ==
    IF use_hierarchical /\ candidates # {} /\ Cardinality(candidates) < Len(metadata)
    THEN LET IsCandidate(idx) == idx \in candidates
             filtered_results == SelectSeq(hits, IsCandidate)
         IN IF filtered_results # <<>> THEN Take(filtered_results, k) ELSE hits
    ELSE hits

\* self.metadata[idx] for a label of the index
MetaAt(idx) == IF idx = 0 THEN metadata[Len(metadata)] ELSE metadata[idx]

\* text[:100]
text_snippet(text) == Take(text, 100)

\* retrieve, lines 257-329: the labels that are scored, in the order of the
\* hits; a hit whose snippet was seen is skipped and not added to seen_indices
RECURSIVE ScoredFrom(_, _, _, _)
ScoredFrom(hits, i, seen_texts, scored) ==
    IF i > Len(hits) THEN scored
    ELSE LET snippet == text_snippet(MetaAt(hits[i]).text)
         IN IF snippet \in seen_texts
            THEN ScoredFrom(hits, i + 1, seen_texts, scored)
            ELSE ScoredFrom(hits, i + 1, seen_texts \cup {snippet}, Append(scored, hits[i]))

scored_results(hits) == ScoredFrom(hits, 1, {}, <<>>)

\* retrieve, line 335
candidate_count(top_k, use_reranking) ==
    IF use_reranking /\ use_reranker THEN top_k * 2 ELSE top_k

\* the result dict copied from a scored chunk
ResultOf(idx) == [index |-> idx, injected |-> FALSE]

\* retrieve, lines 332-351: the scored chunks sorted by relevance_score, cut
\* to candidate_count
RankedResults(scored, count) ==
    {Take([i \in 1..Len(order) |-> ResultOf(order[i])], count) : order \in Orders(scored)}

\* retrieve, line 356
is_metric_query(query_lower) ==
    ContainsAny(query_lower, << <<"e", "x", "p", "e", "n", "s", "e", " ", "r", "a", "t", "i", "o">>, <<"t", "e", "r">>, <<"e", "x", "i", "t", " ", "l", "o", "a", "d">>, <<"s", "i", "p">>, <<"l", "o", "c", "k", "-", "i", "n">> >>)

\* retrieve, lines 360-368: the fund whose overview page is looked up
fund_name(query_lower) ==
    IF Contains(query_lower, <<"l", "a", "r", "g", "e", " ", "c", "a", "p">>) THEN "largecap"
    ELSE IF Contains(query_lower, <<"f", "l", "e", "x", "i", " ", "c", "a", "p">>) \/ Contains(query_lower, <<"f", "l", "e", "x", "i", "c", "a", "p">>)
    THEN "flexicap"
    ELSE IF Contains(query_lower, <<"e", "l", "s", "s">>) THEN "elss"
    ELSE IF Contains(query_lower, <<"h", "y", "b", "r", "i", "d">>) THEN "hybrid"
    ELSE ""

\* any(char.isdigit() for char in text)
HasDigit(text) == \E i \in 1..Len(text) : IsDigit(text[i])

\* re.search(r'\d+\.\d+', text)
HasDecimal(text) ==
    \E i \in 1..(Len(text) - 2) :
        IsDigit(text[i]) /\ text[i + 1] = "." /\ IsDigit(text[i + 2])

\* retrieve, lines 375-386: the overview chunk carries the expense ratio
HasExpenseRatio(query_lower, text) ==
    LET chunk_text_lower == Lower(text)
        has_ter_pattern ==
            /\ \/ Contains(chunk_text_lower, <<"t", "o", "t", "a", "l", " ", "e", "x", "p", "e", "n", "s", "e", " ", "r", "a", "t", "i", "o">>)
               \/ Contains(chunk_text_lower, <<"t", "e", "r">>)
            /\ HasDigit(text)
        has_expense_value ==
            Contains(chunk_text_lower, <<"e", "x", "p", "e", "n", "s", "e">>) /\ HasDigit(Take(text, 300))
        has_decimal == HasDecimal(Take(text, 300))
    IN /\ Contains(query_lower, <<"e", "x", "p", "e", "n", "s", "e">>) \/ Contains(query_lower, <<"t", "e", "r">>)
       /\ has_ter_pattern \/ has_expense_value
       /\ has_decimal \/ Contains(chunk_text_lower, <<"t", "o", "t", "a", "l", " ", "e", "x", "p", "e", "n", "s", "e", " ", "r", "a", "t", "i", "o">>)

\* retrieve, lines 354-401: the position of the overview chunk that is
\* appended, or 0 when none is
overview_chunk(query, include_overview, seen_indices) ==
    LET query_lower == Lower(query)
        overview_source == <<"amc", fund_name(query_lower), "overview">>
        Eligible(idx) ==
            /\ idx \notin seen_indices
            /\ metadata[idx].source_id = overview_source
            /\ HasExpenseRatio(query_lower, metadata[idx].text)
    IN IF /\ include_overview
          /\ is_metric_query(query_lower)
          /\ fund_name(query_lower) # ""
          /\ \E idx \in 1..Len(metadata) : Eligible(idx)
       THEN CHOOSE idx \in 1..Len(metadata) :
                Eligible(idx) /\ \A j \in 1..(idx - 1) : ~Eligible(j)
       ELSE 0

\* the results with the overview chunk appended
WithOverview(results, idx) ==
    IF idx = 0 THEN results ELSE Append(results, [index |-> idx, injected |-> TRUE])

\* Reranker.rerank_with_metadata(query, chunks, top_k): the chunks sorted by
\* the boosted cross-encoder score, cut to top_k
rerank_with_metadata(chunks_in, top_k) ==
    {Take(order, top_k) : order \in Orders(chunks_in)}

\* the list as it stands after the injection, without the final cut
ReturnAll(results, top_k) == results

\* retrieve, line 416: results[:top_k]
Truncated(results, top_k) == Take(results, top_k)

\* the re-ranking is asked for whether or not the model was loaded
RerankingRequested(results, top_k, use_reranking) ==
    use_reranking /\ Len(results) > top_k

\* retrieve, line 404: the condition under which the re-ranker is called
reranking_applies(results, top_k, use_reranking) ==
    use_reranking /\ use_reranker /\ Len(results) > top_k

\* retrieve, lines 403-416: the lists the call can return
Returned(results, top_k, use_reranking) ==
    IF reranking_applies(results, top_k, use_reranking)
    THEN rerank_with_metadata(Take(results, Min2(Len(results), top_k * 2)), top_k)
    ELSE {Truncated(results, top_k)}

\* a completed retrieve call: its arguments, the locals the properties speak
\* of, the real labels the index returned, and the returned list
RetrieveCall(query, top_k, use_hierarchical, locals, hits, results) ==
    [called |-> TRUE, query |-> query, top_k |-> top_k,
     use_hierarchical |-> use_hierarchical,
     query_type |-> locals.query_type, scheme_tag |-> locals.scheme_tag,
     candidate_indices |-> locals.candidate_indices,
     hits |-> hits, results |-> results]

\* retrieve, lines 164-235: query type, actual scheme tag, candidate set and
\* search breadth of a call
RetrieveLocals(query, top_k, use_hierarchical) ==
    UNION {
        { [query_type |-> query_type, scheme_tag |-> actual_scheme_tag,
           candidate_indices |-> candidates,
           search_k |-> search_k(query_type, top_k, use_hierarchical, candidates)] :
             candidates \in {candidate_indices(use_hierarchical, query_type,
                                               actual_scheme_tag, field)} } :
        query_type \in {classify(query)},
        actual_scheme_tag \in {IF use_hierarchical
                               THEN SCHEME_TAG_MAP(_identify_scheme_from_query(query))
                               ELSE ""},
        field \in {RAGRetriever_identify_field_from_query(query)} }

\* retrieve, lines 243-329, for every answer of the index: the real labels
\* returned and the labels that were scored
ScoredHits(use_hierarchical, locals) ==
    { [hits |-> Elements(hits) \ {0},
       scored |-> scored_results(hierarchical_filter(hits, use_hierarchical,
                                                     locals.candidate_indices,
                                                     locals.search_k))] :
        hits \in Searches(locals.search_k) }

\* retrieve, lines 331-416, from the scored labels on
ReturnedFrom(query, top_k, include_overview, use_reranking, scored) ==
    UNION {
        UNION { Returned(WithOverview(results, overview), top_k, use_reranking) :
                    results \in RankedResults(scored, candidate_count(top_k, use_reranking)) } :
        overview \in {overview_chunk(query, include_overview, Elements(scored))} }

\* RAGRetriever.retrieve: the completed calls the arguments allow; an empty
\* answer of the index (lines 239-241) returns the empty list
retrieve(query, top_k, include_overview, use_hierarchical, use_reranking) ==
    UNION {
        IF locals.search_k = 0
        THEN {RetrieveCall(query, top_k, use_hierarchical, locals, {}, <<>>)}
        ELSE UNION {
                 { RetrieveCall(query, top_k, use_hierarchical, locals, found.hits, results) :
                       results \in ReturnedFrom(query, top_k, include_overview,
                                                use_reranking, found.scored) } :
                 found \in ScoredHits(use_hierarchical, locals) } :
        locals \in RetrieveLocals(query, top_k, use_hierarchical) }

----------------------------------------------------------------------------
(* Inputs of the retriever *)

MaxPick == 2

MaxFiller == 6

MaxTopK == 2

RetrieveQueries ==
    { <<"e", "x", "p", "e", "n", "s", "e", " ", "r", "a", "t", "i", "o", " ", "o", "f", " ", "e", "l", "s", "s">>,
      <<"C", "o", "m", "p", "a", "r", "e", " ", "T", "E", "R", " ", "o", "f", " ", "l", "a", "r", "g", "e", "c", "a", "p", " ", "a", "n", "d", " ", "h", "y", "b", "r", "i", "d">>,
      <<"f", "u", "n", "d", " ", "m", "a", "n", "a", "g", "e", "r", " ", "o", "f", " ", "h", "y", "b", "r", "i", "d">> }

\* a chunk of faiss_metadata.json as rebuild_index.py writes it
MetaChunk(source_id, scheme_tag, field, text) ==
    [source_id |-> source_id, scheme_tag |-> scheme_tag, field |-> field, text |-> text]

\* an overview text longer than a snippet; the plan name lies behind the
\* first 100 characters
OverviewText(plan) ==
    <<"T", "o", "t", "a", "l", " ", "E", "x", "p", "e", "n", "s", "e", " ", "R", "a", "t", "i", "o", " ", "(", "T", "E", "R", ")", " ", "0", ".", "9", "7", "%", " ">> \o [i \in 1..70 |-> "-"] \o plan

\* the chunks a corpus is picked from
PoolChunks ==
    << MetaChunk(<<"amc", "elss", "overview">>, "ELSS", "expense_ratio",
                 OverviewText(<<"d", "i", "r", "e", "c", "t">>)),
       MetaChunk(<<"amc", "elss", "overview">>, "ELSS", "",
                 OverviewText(<<"r", "e", "g", "u", "l", "a", "r">>)),
       MetaChunk(<<"amc", "elss", "sid">>, "ELSS", "expense_ratio",
                 <<"E", "x", "p", "e", "n", "s", "e", " ", "r", "a", "t", "i", "o", ":", " ", "u", "p", " ", "t", "o", " ", "2", ".", "2", "5", "%">>),
       MetaChunk(<<"amc", "hybrid", "overview">>, "HYBRID", "",
                 <<"T", "E", "R", " ", "1", ".", "0", "5", "%", " ", "f", "o", "r", " ", "t", "h", "e", " ", "h", "y", "b", "r", "i", "d", " ", "f", "u", "n", "d">>),
       MetaChunk(<<"amfi", "ter", "rules">>, "ALL", "expense_ratio",
                 <<"T", "E", "R", " ", "l", "i", "m", "i", "t", "s", " ", "s", "e", "t", " ", "b", "y", " ", "S", "E", "B", "I">>),
       MetaChunk(<<"amc", "largecap", "sid">>, "LARGE_CAP", "",
                 <<"F", "u", "n", "d", " ", "m", "a", "n", "a", "g", "e", "r", ":", " ", "R", " ", "S", "h", "a", "h">>) >>

\* further ELSS chunks with distinct texts
FillerChunk(i) ==
    MetaChunk(<<"amc", "elss", "factsheet">>, "ELSS", "expense_ratio",
              <<"E", "x", "p", "e", "n", "s", "e", " ", "r", "a", "t", "i", "o", " ", "s", "l", "a", "b", " ">> \o <<DigitChar(i)>>)

\* the chunks of the pool at the positions in picks, in the order of the pool
Picked(picks) ==
    LET IsPicked(k) == k \in picks
        positions == SelectSeq([k \in 1..Len(PoolChunks) |-> k], IsPicked)
    IN [i \in 1..Len(positions) |-> PoolChunks[positions[i]]]

\* two overview chunks of one scheme with the same snippet, and a chunk of
\* the scheme information document
OverviewTwice == Picked({1, 2, 3})

\* the corpora: up to MaxPick chunks of the pool, alone or followed by
\* MaxFiller further chunks, and the corpus with the overview twice; never
\* empty
Corpora ==
    ({Picked(picks) \o [i \in 1..n |-> FillerChunk(i)] :
        picks \in {p \in SUBSET (1..Len(PoolChunks)) : Cardinality(p) <= MaxPick},
        n \in {0, MaxFiller}} \ {<<>>}) \cup {OverviewTwice}

NoRetrieve ==
    [called |-> FALSE, query |-> <<>>, top_k |-> 0, use_hierarchical |-> FALSE,
     query_type |-> "", scheme_tag |-> "", candidate_indices |-> {},
     hits |-> {}, results |-> <<>>]

----------------------------------------------------------------------------
(* The retriever as a state machine *)

InitRetrieve ==
    /\ facts = <<>>
    /\ now = 0
    /\ conflicts = <<>>
    /\ previous = <<>>
    /\ runs = 0
    /\ resolved = <<"unset">>
    /\ chunks = <<>>
    /\ store = <<>>
    /\ result = <<>>
    /\ metadata \in Corpora
    /\ use_reranker \in BOOLEAN
    /\ retrieved = NoRetrieve
    /\ IdleRest

\* one call of retrieve with the default include_overview and use_reranking
Retrieve ==
    \E query \in RetrieveQueries, top_k \in 0..MaxTopK, use_hierarchical \in BOOLEAN :
        /\ ~retrieved.called
        /\ retrieved' \in retrieve(query, top_k, TRUE, use_hierarchical, TRUE)
        /\ UNCHANGED <<metadata, use_reranker>>
        /\ UNCHANGED cdVars
        /\ UNCHANGED exVars
        /\ UNCHANGED restVars

NextRetrieve == Retrieve

SpecRetrieve == InitRetrieve /\ [][NextRetrieve]_vars

----------------------------------------------------------------------------
(* Claims about the retriever *)

\* the chunk a returned result was copied from
ChunkOf(r) == MetaAt(r.index)

\* the hierarchical filter was applied and none of the hits passed it
FilterFellBack ==
    /\ retrieved.use_hierarchical
    /\ retrieved.candidate_indices # {}
    /\ Cardinality(retrieved.candidate_indices) < Len(metadata)
    /\ retrieved.hits # {}
    /\ retrieved.hits \cap retrieved.candidate_indices = {}

\* the position in self.metadata that a label of the index stands for
PositionOf(idx) == IF idx = 0 THEN Len(metadata) ELSE idx

\* C2: with hierarchical filtering on and a scheme identified from the query,
\* every returned chunk is untagged, tagged ALL or tagged with that scheme,
\* unless the corpus has no chunk of the scheme or no hit of the vector
\* search lies in the candidate set (then the unfiltered hits are returned);
\* on every path, the overview injection included.
C2_ReturnedChunksAreOfScheme ==
    (/\ retrieved.called
     /\ retrieved.use_hierarchical
     /\ retrieved.scheme_tag # ""
     /\ scheme_indices(retrieved.scheme_tag) # {}
     /\ retrieved.hits \cap retrieved.candidate_indices # {})
    => \A i \in 1..Len(retrieved.results) :
           ChunkOf(retrieved.results[i]).scheme_tag \in {"", "ALL", retrieved.scheme_tag}

\* C3: no call returns two chunks of the corpus whose texts agree in their
\* first 100 characters, whether they were scored, injected or re-ranked.
C3_OneChunkPerSnippet ==
    retrieved.called =>
        \A i, j \in 1..Len(retrieved.results) :
            PositionOf(retrieved.results[i].index) # PositionOf(retrieved.results[j].index)
            => text_snippet(ChunkOf(retrieved.results[i]).text)
                   # text_snippet(ChunkOf(retrieved.results[j]).text)

\* C4: a call with top_k >= 0 returns at most top_k chunks, with or without
\* hierarchical filtering, re-ranking and an injected overview chunk.
C4_AtMostTopK ==
    retrieved.called => Len(retrieved.results) <= retrieved.top_k

\* a hierarchical call with the re-ranker loaded returns exactly top_k chunks,
\* one of them the injected overview chunk
C4_Witness ==
    /\ retrieved.called
    /\ retrieved.use_hierarchical
    /\ use_reranker
    /\ retrieved.top_k >= 1
    /\ Len(retrieved.results) = retrieved.top_k
    /\ \E i \in 1..Len(retrieved.results) : retrieved.results[i].injected

\* C5: when the vector search returns at least one hit and top_k >= 1, the
\* call returns a non-empty list, also when no hit lies in the candidate set.
C5_HitsGiveResults ==
    (retrieved.called /\ retrieved.hits # {} /\ retrieved.top_k >= 1)
    => retrieved.results # <<>>

\* none of the hits lay in the candidate set, and the hits were returned
C5_Witness ==
    /\ retrieved.called
    /\ FilterFellBack
    /\ retrieved.top_k >= 1
    /\ retrieved.results # <<>>
    /\ \A i \in 1..Len(retrieved.results) :
           retrieved.results[i].index \in retrieved.hits

----------------------------------------------------------------------------
(* clean_chunks.py: the fact extraction that builds chunks_clean.jsonl and   *)
(* facts_extracted.csv                                                       *)

MaxSources == 2

\* process_source, lines 531 and 539
MinTextLen == 200

\* the least element of a non-empty set of positions
Least(S) == CHOOSE x \in S : \A y \in S : x <= y

\* the words of a phrase, separated by \s+ and in any case, at position i:
\* the position behind the phrase, or 0
RECURSIVE PhraseAt(_, _, _)
PhraseAt(s, i, words) ==
    LET a == MatchLiteral(s, i, Head(words))
    IN IF a = 0 THEN 0
       ELSE IF Len(words) = 1 THEN a
       ELSE IF SpaceRunEnd(s, a) = a THEN 0
       ELSE PhraseAt(s, SpaceRunEnd(s, a), Tail(words))

\* first position >= i that is past the end or holds neither ":" nor whitespace
RECURSIVE ColonSpaceRunEnd(_, _)
ColonSpaceRunEnd(s, i) ==
    IF i <= Len(s) /\ (s[i] = ":" \/ IsSpace(s[i])) THEN ColonSpaceRunEnd(s, i + 1) ELSE i

\* [0-9]+(?:\.[0-9]+)? at position a: the position behind it (a when no digit)
DecimalEnd(s, a) ==
    LET e1 == DigitRunEnd(s, a)
    IN IF e1 > a /\ e1 <= Len(s) /\ s[e1] = "." /\ DigitRunEnd(s, e1 + 1) > e1 + 1
       THEN DigitRunEnd(s, e1 + 1)
       ELSE e1

\* [:\s]+([0-9]+(?:\.[0-9]+)?)\s?% at position j: <<start, end>> of the group, or <<>>
DecimalPercentAt(s, j) ==
    LET a == ColonSpaceRunEnd(s, j)
        e == DecimalEnd(s, a)
    IN IF a > j /\ e > a /\ PercentAfter(s, e) # 0 THEN <<a, e>> ELSE <<>>

\* re.search(<phrase>[:\s]+([0-9]+(?:\.[0-9]+)?)\s?%, text, re.IGNORECASE) from
\* position i on: group 1, or <<>> when the pattern does not match
LabelledPercent(s, words, i) ==
    LET starts == {j \in i..Len(s) :
                       PhraseAt(s, j, words) # 0
                           /\ DecimalPercentAt(s, PhraseAt(s, j, words)) # <<>>}
    IN IF starts = {} THEN <<>>
       ELSE LET g == DecimalPercentAt(s, PhraseAt(s, Least(starts), words))
            IN SubSeq(s, g[1], g[2] - 1)

\* 0.1 <= float(value) <= 5.0 for a decimal literal value
InSanityRange(value) ==
    LET e1 == DigitRunEnd(value, 1)
        k  == IF e1 < Len(value) THEN Len(value) - e1 ELSE 0
        n  == DigitsValue(value, 1, e1) * Pow10(k)
              + (IF k > 0 THEN DigitsValue(value, e1 + 1, Len(value) + 1) ELSE 0)
    IN 10 * n >= Pow10(k) /\ n <= 5 * Pow10(k)

\* extract_expense_ratio, lines 370-374
expense_patterns ==
    << <<<<"t", "o", "t", "a", "l">>, <<"e", "x", "p", "e", "n", "s", "e">>, <<"r", "a", "t", "i", "o">>>>, <<<<"t", "e", "r">>>>, <<<<"e", "x", "p", "e", "n", "s", "e">>, <<"r", "a", "t", "i", "o">>>> >>

\* lines 376-385: the first pattern whose match passes the sanity check
RECURSIVE FirstSanePattern(_, _)
FirstSanePattern(text, k) ==
    IF k > Len(expense_patterns) THEN <<>>
    ELSE LET value == LabelledPercent(text, expense_patterns[k], 1)
         IN IF value # <<>> /\ InSanityRange(value) THEN value \o <<"%">>
            ELSE FirstSanePattern(text, k + 1)

\* Total\s+Expense\s+Ratio|TER\b|expense\s+ratio at position i: the position
\* behind the match, or 0
TerAt(s, i) ==
    LET a == PhraseAt(s, i, expense_patterns[1])
        b == MatchLiteral(s, i, <<"t", "e", "r">>)
        c == PhraseAt(s, i, expense_patterns[3])
    IN IF a # 0 THEN a
       ELSE IF b # 0 /\ (b > Len(s) \/ ~IsWordChar(s[b])) THEN b
       ELSE c

\* lines 388-390: match.end() of the re.finditer matches from position i on
RECURSIVE ter_positions(_, _)
ter_positions(s, i) ==
    LET starts == {j \in i..Len(s) : TerAt(s, j) # 0}
    IN IF starts = {} THEN <<>>
       ELSE <<TerAt(s, Least(starts))>> \o ter_positions(s, TerAt(s, Least(starts)))

\* re.search(r"([0-9]+\.[0-9]{1,2})", s) from position i on: group 1, or <<>>
RECURSIVE FirstDecimal(_, _)
FirstDecimal(s, i) ==
    IF i > Len(s) THEN <<>>
    ELSE LET e1 == DigitRunEnd(s, i)
         IN IF e1 > i /\ e1 + 1 <= Len(s) /\ s[e1] = "." /\ IsDigit(s[e1 + 1])
            THEN SubSeq(s, i, Min2(DigitRunEnd(s, e1 + 1), e1 + 3) - 1)
            ELSE FirstDecimal(s, IF e1 > i THEN e1 ELSE i + 1)

\* lines 392-398: the first TER position whose next decimal passes the check
RECURSIVE FirstSaneNearby(_, _, _)
FirstSaneNearby(text, positions, k) ==
    IF k > Len(positions) THEN <<>>
    ELSE LET search_text == SubSeq(text, positions[k], Min2(Len(text), positions[k] + 99))
             num == FirstDecimal(search_text, 1)
         IN IF num # <<>> /\ InSanityRange(num) THEN num \o <<"%">>
            ELSE FirstSaneNearby(text, positions, k + 1)

\* lines 369-400: what extract_expense_ratio finds in a text of an allowed source
ExpenseRatioIn(text) ==
    LET first == FirstSanePattern(text, 1)
    IN IF first # <<>> THEN first
       ELSE FirstSaneNearby(text, ter_positions(text, 1), 1)

\* <<>> stands for None
extract_expense_ratio(text, source_type) ==
    IF source_type \notin {FactsheetConsolidated, Regulatory} THEN <<>>
    ELSE ExpenseRatioIn(text)

\* Lock[-\s]?in at position i, any case: the position behind it, or 0
LockInAt(s, i) ==
    LET a == MatchLiteral(s, i, <<"l", "o", "c", "k">>)
        b == IF a # 0 /\ a <= Len(s) /\ (s[a] = "-" \/ IsSpace(s[a])) THEN a + 1 ELSE a
    IN IF a = 0 THEN 0 ELSE MatchLiteral(s, b, <<"i", "n">>)

\* [:\s]+([0-9]+)\s*(?:year|years|yr|yrs) at position j: int(group 1), or None
YearsAt(s, j) ==
    LET c == ColonSpaceRunEnd(s, j)
        d == DigitRunEnd(s, c)
        u == SpaceRunEnd(s, d)
    IN IF c > j /\ d > c /\ (MatchLiteral(s, u, <<"y", "e", "a", "r">>) # 0 \/ MatchLiteral(s, u, <<"y", "r">>) # 0)
       THEN DigitsValue(s, c, d)
       ELSE NoneVal

\* the pattern of extract_lock_in with index k at position i: int(group 1), or None
LockInYearsAt(s, k, i) ==
    LET a == LockInAt(s, i)
        p == IF a # 0 /\ SpaceRunEnd(s, a) > a
             THEN MatchLiteral(s, SpaceRunEnd(s, a), <<"p", "e", "r", "i", "o", "d">>) ELSE 0
        j == IF k = 1 THEN a ELSE p
    IN IF j # 0 THEN YearsAt(s, j) ELSE NoneVal

\* re.search of that pattern from position i on: int(group 1), or None
LockInYears(s, k, i) ==
    LET starts == {j \in i..Len(s) : LockInYearsAt(s, k, j) # NoneVal}
    IN IF starts = {} THEN NoneVal ELSE LockInYearsAt(s, k, Least(starts))

\* extract_lock_in, lines 339-362; <<>> stands for None
extract_lock_in(text, scheme_tag) ==
    IF scheme_tag # "ELSS" THEN <<>>
    ELSE IF Contains(Lower(text), <<"e", "l", "s", "s">>) \/ Contains(text, <<"E", "q", "u", "i", "t", "y", " ", "L", "i", "n", "k", "e", "d", " ", "S", "a", "v", "i", "n", "g">>)
    THEN <<"3", " ", "y", "e", "a", "r", "s">>
    ELSE IF \E k \in 1..2 : LockInYears(text, k, 1) = 3 THEN <<"3", " ", "y", "e", "a", "r", "s">>
    ELSE <<>>

\* get_field_source_priority, lines 459-470
get_field_source_priority(field) ==
    CASE field = "minimum_sip"   -> <<KimPdf, SidPdf, SchemeOverview>>
      [] field = "min_lumpsum"   -> <<KimPdf, SidPdf, SchemeOverview>>
      [] field = "exit_load"     -> <<SidPdf, KimPdf, FactsheetConsolidated, SchemeOverview>>
      [] field = "lock_in"       -> <<Regulatory>>
      [] field = "expense_ratio" -> <<FactsheetConsolidated, Regulatory>>
      [] field = "benchmark"     -> <<SchemeOverview, FactsheetConsolidated>>
      [] field = "riskometer"    -> <<SchemeOverview, FactsheetConsolidated>>
      [] OTHER                   -> <<>>

should_extract_field(field, source_type) ==
    \E i \in 1..Len(get_field_source_priority(field)) :
        get_field_source_priority(field)[i] = source_type

\* the keys of a facts dict, in the order process_source inserts them
FactKeys ==
    <<"min_sip", "min_lumpsum", "exit_load", "lock_in", "expense_ratio", "benchmark",
      "riskometer">>

\* process_source, lines 648-656
field_mapping(fact_key) == IF fact_key = "min_sip" THEN "minimum_sip" ELSE fact_key

\* A row of sources.csv together with its file under data_processed: text is
\* clean_text of the file, and found gives what extract_minimum_sip,
\* extract_minimum_lumpsum, extract_exit_load, extract_benchmark and
\* extract_riskometer return on that text (<<>> for None); the patterns of
\* these five are not modelled.
Source(source_id, source_type, scheme_tag, document) ==
    [source_id |-> source_id, source_type |-> source_type, scheme_tag |-> scheme_tag,
     text |-> document.text, found |-> document.found]

\* lines 552-562, 597-626: a field that is extracted only from allowed source types
Attempt(source, field, value) ==
    IF should_extract_field(field, source.source_type) THEN value ELSE <<>>

\* the facts dict of a source; a key that is absent or None holds <<>>
SourceFacts(source, lock_in, expense_ratio) ==
    [min_sip       |-> Attempt(source, "minimum_sip", source.found.minimum_sip),
     min_lumpsum   |-> Attempt(source, "min_lumpsum", source.found.min_lumpsum),
     exit_load     |-> Attempt(source, "exit_load", source.found.exit_load),
     lock_in       |-> lock_in,
     expense_ratio |-> expense_ratio,
     benchmark     |-> Attempt(source, "benchmark", source.found.benchmark),
     riskometer    |-> Attempt(source, "riskometer", source.found.riskometer)]

\* lines 658-676: one chunk per fact with a value, in the order of the keys;
\* value stands for the chunk_text that create_chunk_text builds around it
RECURSIVE ChunksOf(_, _, _)
ChunksOf(source, source_facts, k) ==
    IF k > Len(FactKeys) THEN <<>>
    ELSE (IF source_facts[FactKeys[k]] # <<>>
          THEN << [source_id   |-> source.source_id,
                   source_type |-> source.source_type,
                   scheme_tag  |-> source.scheme_tag,
                   field       |-> field_mapping(FactKeys[k]),
                   value       |-> source_facts[FactKeys[k]]] >>
          ELSE <<>>)
         \o ChunksOf(source, source_facts, k + 1)

\* the pair process_source returns; facts = <<>> is the empty dict
Processed(source, lock_in, expense_ratio) ==
    IF Len(Strip(source.text)) < MinTextLen THEN [chunks |-> <<>>, facts |-> <<>>]
    ELSE [chunks |-> ChunksOf(source, SourceFacts(source, lock_in, expense_ratio), 1),
          facts  |-> SourceFacts(source, lock_in, expense_ratio)]

\* process_source with the lock-in taken from the text
ProcessSourceTextLockIn(source) ==
    Processed(source,
              extract_lock_in(source.text, source.scheme_tag),
              Attempt(source, "expense_ratio",
                      extract_expense_ratio(source.text, source.source_type)))

\* process_source with the expense ratio taken from any source type
ProcessSourceAnyType(source) ==
    Processed(source,
              IF source.scheme_tag = "ELSS" THEN <<"3", " ", "y", "e", "a", "r", "s">> ELSE <<>>,
              ExpenseRatioIn(source.text))

\* process_source, lines 513-667: lock_in is statutory for ELSS (584-595), the
\* expense ratio comes from allowed source types only (597-607)
process_source(source) ==
    Processed(source,
              IF source.scheme_tag = "ELSS" THEN <<"3", " ", "y", "e", "a", "r", "s">> ELSE <<>>,
              Attempt(source, "expense_ratio",
                      extract_expense_ratio(source.text, source.source_type)))

\* main, lines 752-771: the keys (scheme_tag, field) in the order of their
\* first chunk
RECURSIVE GroupKeys(_, _)
GroupKeys(all_chunks, k) ==
    IF k > Len(all_chunks) THEN <<>>
    ELSE LET key == <<all_chunks[k].scheme_tag, all_chunks[k].field>>
         IN (IF \E j \in 1..(k - 1) :
                    <<all_chunks[j].scheme_tag, all_chunks[j].field>> = key
             THEN <<>> ELSE <<key>>)
            \o GroupKeys(all_chunks, k + 1)

\* get_priority, lines 765-767: the position of the chunk's source type in
\* the field's priority list, 999 when it is not listed
get_priority(chunk) ==
    LET field_priorities == get_field_source_priority(chunk.field)
    IN IF \E i \in 1..Len(field_priorities) : field_priorities[i] = chunk.source_type
       THEN (CHOOSE i \in 1..Len(field_priorities) :
                 field_priorities[i] = chunk.source_type) - 1
       ELSE 999

\* chunks_list.sort(key=get_priority)[0]: the first chunk of the group with
\* the least priority number
GroupHead(all_chunks, key) ==
    LET members == {k \in 1..Len(all_chunks) :
                        <<all_chunks[k].scheme_tag, all_chunks[k].field>> = key}
        k == CHOOSE k \in members :
                 \A j \in members :
                     \/ get_priority(all_chunks[k]) < get_priority(all_chunks[j])
                     \/ get_priority(all_chunks[k]) = get_priority(all_chunks[j]) /\ k <= j
    IN all_chunks[k]

deduplicate(all_chunks) ==
    LET keys == GroupKeys(all_chunks, 1)
    IN [g \in 1..Len(keys) |-> GroupHead(all_chunks, keys[g])]

\* re.match(r"₹[0-9]+", min_sip)
ValidMinSip(min_sip) == Len(min_sip) >= 2 /\ min_sip[1] = "₹" /\ IsDigit(min_sip[2])

\* quality_checks, check 2 (lines 683-689): an ill-formed min_sip is blanked
Check2(all_facts) ==
    [k \in 1..Len(all_facts) |->
        IF all_facts[k].facts.min_sip # <<>> /\ ~ValidMinSip(all_facts[k].facts.min_sip)
        THEN [all_facts[k] EXCEPT !.facts.min_sip = <<>>]
        ELSE all_facts[k]]

\* facts[source_id]["expense_ratio"] = None where the source has a facts dict
BlankExpenseRatio(all_facts, source_id) ==
    [k \in 1..Len(all_facts) |->
        IF all_facts[k].source_id = source_id
        THEN [all_facts[k] EXCEPT !.facts.expense_ratio = <<>>]
        ELSE all_facts[k]]

\* list.remove: the list without its first element equal to x
RemoveFirst(list, x) ==
    LET k == CHOOSE k \in 1..Len(list) : list[k] = x /\ \A j \in 1..(k - 1) : list[j] # x
    IN SubSeq(list, 1, k - 1) \o SubSeq(list, k + 1, Len(list))

\* quality_checks, check 3 (lines 691-700): the loop over the chunk list, which
\* steps to the next position also after it removed the chunk of this one
RECURSIVE Check3(_, _, _)
Check3(final_chunks, all_facts, i) ==
    IF i > Len(final_chunks) THEN [chunks |-> final_chunks, facts |-> all_facts]
    ELSE IF /\ final_chunks[i].field = "expense_ratio"
            /\ final_chunks[i].source_type \notin {FactsheetConsolidated, Regulatory}
    THEN Check3(RemoveFirst(final_chunks, final_chunks[i]),
                BlankExpenseRatio(all_facts, final_chunks[i].source_id), i + 1)
    ELSE Check3(final_chunks, all_facts, i + 1)

\* quality_checks, lines 671-716, by what it does to its arguments; checks 1
\* and 4 only log and collect issues
quality_checks(final_chunks, all_facts) == Check3(final_chunks, Check2(all_facts), 1)

\* a text of at least MinTextLen characters
Padded(s) == s \o [i \in 1..MinTextLen |-> "-"]

NothingFound ==
    [minimum_sip |-> <<>>, min_lumpsum |-> <<>>, exit_load |-> <<>>, benchmark |-> <<>>,
     riskometer |-> <<>>]

\* the processed texts the sources are drawn from
Documents ==
    { [text  |-> Padded(<<"T", "o", "t", "a", "l", " ", "E", "x", "p", "e", "n", "s", "e", " ", "R", "a", "t", "i", "o", ":", " ", "0", ".", "9", "7", "%", " ", "E", "x", "i", "t", " ", "L", "o", "a", "d", ":", " ", "1", "%", " ", "E", "L", "S", "S", " ", "L", "o", "c", "k", "-", "i", "n", ":", " ", "3", " ", "y", "e", "a", "r", "s", ".", " ", " ">>),
       found |-> [NothingFound EXCEPT !.exit_load = <<"1", "%">>]],
      [text  |-> Padded(<<"T", "E", "R", " ", "1", ".", "0", "5", " ", "%", " ", "M", "i", "n", "i", "m", "u", "m", " ", "S", "I", "P", ":", " ", "R", "s", ".", " ", "5", "0", "0", " ", "L", "o", "c", "k", " ", "i", "n", " ", "p", "e", "r", "i", "o", "d", ":", " ", "5", " ", "y", "e", "a", "r", "s", " ">>),
       found |-> [NothingFound EXCEPT !.minimum_sip = <<"₹", "5", "0", "0">>]],
      [text  |-> Padded(<<"e", "x", "p", "e", "n", "s", "e", " ", "r", "a", "t", "i", "o", " ", "7", ".", "5", "%", " ", "a", "n", "d", " ", "a", " ", "T", "E", "R", " ", "o", "f", " ", "2", ".", "2", "5", " ", "L", "o", "c", "k", "-", "i", "n", ":", " ", "3", " ", "y", "r", "s", " ">>),
       found |-> NothingFound],
      [text  |-> Padded(<<"E", "x", "i", "t", " ", "L", "o", "a", "d", ":", " ", "N", "i", "l", " ">>),
       found |-> [NothingFound EXCEPT !.exit_load = <<"N", "i", "l">>]],
      [text  |-> <<"T", "E", "R", ":", " ", "1", ".", "1", "0", "%", " ", "E", "L", "S", "S">>,
       found |-> NothingFound] }

\* the rows of sources.csv the tables are drawn from: source_id, source_type,
\* scheme_tag
SourceCatalogue ==
    << <<<<"elss", "sid">>, SidPdf, "ELSS">>,
       <<<<"elss", "factsheet">>, FactsheetConsolidated, "ELSS">>,
       <<<<"elss", "overview">>, SchemeOverview, "ELSS">>,
       <<<<"amfi", "ter">>, Regulatory, "ALL">>,
       <<<<"largecap", "kim">>, KimPdf, "LARGE_CAP">>,
       <<<<"largecap", "factsheet">>, FactsheetConsolidated, "LARGE_CAP">>,
       <<<<"elss", "kim">>, KimPdf, "ELSS">> >>

RECURSIVE Ascending(_)
Ascending(S) ==
    IF S = {} THEN <<>>
    ELSE LET m == CHOOSE x \in S : \A y \in S : x <= y
         IN <<m>> \o Ascending(S \ {m})

\* sources.csv tables of at most MaxSources rows, in catalogue order
SourceTables ==
    UNION { { [i \in 1..Cardinality(picks) |->
                  LET c == Ascending(picks)[i]
                  IN Source(SourceCatalogue[c][1], SourceCatalogue[c][2],
                            SourceCatalogue[c][3], docs[c])] :
              docs \in [picks -> Documents] } :
            picks \in {p \in SUBSET (1..Len(SourceCatalogue)) :
                          Cardinality(p) \in 1..MaxSources} }

----------------------------------------------------------------------------
(* clean_chunks.main as a state machine *)

InitBuild ==
    /\ IdleService
    /\ metadata = <<>>
    /\ use_reranker = FALSE
    /\ sources \in SourceTables
    /\ build = [pc |-> "process", next |-> 1, all_chunks |-> <<>>, all_facts |-> <<>>,
                final_chunks |-> <<>>]
    /\ input = <<>>
    /\ output = <<>>
    /\ calls = <<>>
    /\ service = <<>>

BuildFrame ==
    /\ UNCHANGED <<sources, input, output, calls, service>>
    /\ UNCHANGED cdVars
    /\ UNCHANGED exVars
    /\ UNCHANGED rtVars

\* main, lines 741-750: one pass of the loop over the sources
ProcessSource ==
    /\ build.pc = "process"
    /\ build.next <= Len(sources)
    /\ \E r \in {process_source(sources[build.next])} :
           build' = [build EXCEPT
                        !.next = build.next + 1,
                        !.all_chunks = IF r.chunks # <<>> \/ r.facts # <<>>
                                       THEN build.all_chunks \o r.chunks
                                       ELSE build.all_chunks,
                        !.all_facts = IF r.chunks # <<>> \/ r.facts # <<>>
                                      THEN Append(build.all_facts,
                                                  [source_id |-> sources[build.next].source_id,
                                                   facts |-> r.facts])
                                      ELSE build.all_facts]
    /\ BuildFrame

\* main, lines 752-771: one chunk per (scheme_tag, field)
Deduplicate ==
    /\ build.pc = "process"
    /\ build.next > Len(sources)
    /\ build' = [build EXCEPT !.pc = "quality",
                              !.final_chunks = deduplicate(build.all_chunks)]
    /\ BuildFrame

\* main, lines 773-778: quality_checks works on final_chunks and the facts in place
QualityChecks ==
    /\ build.pc = "quality"
    /\ \E q \in {quality_checks(build.final_chunks, build.all_facts)} :
           build' = [build EXCEPT !.pc = "written",
                                  !.final_chunks = q.chunks,
                                  !.all_facts = q.facts]
    /\ BuildFrame

NextBuild == ProcessSource \/ Deduplicate \/ QualityChecks

SpecBuild == InitBuild /\ [][NextBuild]_vars

\* the row of sources.csv with the given source_id
SourceRow(source_id) ==
    sources[CHOOSE k \in 1..Len(sources) : sources[k].source_id = source_id]

\* every chunk main currently holds
BuiltChunks == Elements(build.all_chunks) \cup Elements(build.final_chunks)

\* C11: no fact record and no chunk of the index builder carries an expense
\* ratio unless the source type of its source is factsheet_consolidated or
\* regulatory, whatever the text and the source type, after process_source,
\* after the deduplication and after quality_checks.
C11_ExpenseRatioAllowList ==
    build # <<>> =>
        /\ \A k \in 1..Len(build.all_facts) :
               build.all_facts[k].facts.expense_ratio # <<>> =>
                   SourceRow(build.all_facts[k].source_id).source_type
                       \in {FactsheetConsolidated, Regulatory}
        /\ \A c \in BuiltChunks :
               c.field = "expense_ratio" =>
                   /\ c.source_type \in {FactsheetConsolidated, Regulatory}
                   /\ SourceRow(c.source_id).source_type = c.source_type

\* the files are written; a scheme document whose text states an expense
\* ratio has a fact record without one, next to a factsheet that has one
C11_Witness ==
    /\ build # <<>>
    /\ build.pc = "written"
    /\ \E k \in 1..Len(build.all_facts) :
           /\ SourceRow(build.all_facts[k].source_id).source_type = SidPdf
           /\ ExpenseRatioIn(SourceRow(build.all_facts[k].source_id).text) # <<>>
           /\ build.all_facts[k].facts.expense_ratio = <<>>
    /\ \E c \in Elements(build.final_chunks) :
           c.field = "expense_ratio" /\ c.source_type = FactsheetConsolidated

\* C12: every fact record process_source produces has lock_in "3 years" when
\* the scheme_tag of its source is ELSS, whatever the patterns find in the
\* text, and no lock_in for every other scheme_tag.
C12_StatutoryLockIn ==
    build # <<>> =>
        \A k \in 1..Len(build.all_facts) :
            build.all_facts[k].facts.lock_in =
                IF SourceRow(build.all_facts[k].source_id).scheme_tag = "ELSS"
                THEN <<"3", " ", "y", "e", "a", "r", "s">> ELSE <<>>

\* an ELSS source whose text gives no three-year lock-in has the statutory
\* value, and a source of another scheme whose text mentions one has none
C12_Witness ==
    /\ build # <<>>
    /\ \E k \in 1..Len(build.all_facts) :
           LET row == SourceRow(build.all_facts[k].source_id)
           IN /\ row.scheme_tag = "ELSS"
              /\ extract_lock_in(row.text, "ELSS") = <<>>
              /\ build.all_facts[k].facts.lock_in = <<"3", " ", "y", "e", "a", "r", "s">>
    /\ \E k \in 1..Len(build.all_facts) :
           LET row == SourceRow(build.all_facts[k].source_id)
           IN /\ row.scheme_tag # "ELSS"
              /\ extract_lock_in(row.text, "ELSS") = <<"3", " ", "y", "e", "a", "r", "s">>
              /\ build.all_facts[k].facts.lock_in = <<>>

----------------------------------------------------------------------------
(* reranker.py: the cross-encoder re-ranker, with the chunk dicts it writes to *)

MaxCandidates == 2

MaxScore == 1

\* the scores the cross-encoder can give a (query, text) pair
Scores == (0 - 1)..MaxScore

\* A candidate as retrieve builds it (lines 312-327): index identifies the
\* dict; a score key that the dict does not have holds <<>>, one that it has
\* holds <<score>>. rerank_score is in the cross-encoder's units, final_score
\* in 1/10000 of them.
Candidate(index, source_type, last_updated) ==
    [index |-> index, source_type |-> source_type, last_updated |-> last_updated,
     rerank_score |-> <<>>, final_score |-> <<>>]

\* list.sort(key=..., reverse=True) on <<key, item>> pairs: x goes behind the
\* pairs whose key is not less than its own
RECURSIVE InsertDescending(_, _)
InsertDescending(sorted, x) ==
    IF sorted = <<>> THEN <<x>>
    ELSE IF Head(sorted)[1] >= x[1] THEN <<Head(sorted)>> \o InsertDescending(Tail(sorted), x)
    ELSE <<x>> \o sorted

RECURSIVE SortDescending(_)
SortDescending(pairs) ==
    IF pairs = <<>> THEN <<>>
    ELSE InsertDescending(SortDescending(SubSeq(pairs, 1, Len(pairs) - 1)), pairs[Len(pairs)])

\* the dicts of the list chunks_in as the call leaves them: a dict that is in
\* written holds what was written to it
AfterWriting(chunks_in, written) ==
    [i \in 1..Len(chunks_in) |->
        IF \E k \in 1..Len(written) : written[k].index = chunks_in[i].index
        THEN written[CHOOSE k \in 1..Len(written) : written[k].index = chunks_in[i].index]
        ELSE chunks_in[i]]

\* what self.model.predict does with the pairs: it raises, or it returns one
\* score per pair
Predictions(n) ==
    {[raised |-> TRUE, scores |-> <<>>]}
        \cup {[raised |-> FALSE, scores |-> sc] : sc \in [1..n -> Scores]}

\* Reranker.rerank, lines 31-72: the returned list, and the dicts of the
\* argument after the call
Reranker_rerank(model_loaded, prediction, chunks_in, top_k) ==
    IF chunks_in = <<>> THEN [returned |-> <<>>, after |-> chunks_in]
    ELSE IF ~model_loaded \/ prediction.raised
    THEN [returned |-> Take(chunks_in, top_k), after |-> chunks_in]
    ELSE LET scored_chunks ==
                 SortDescending([i \in 1..Len(chunks_in) |->
                                     <<prediction.scores[i], chunks_in[i]>>])
             reranked ==
                 [k \in 1..Min2(top_k, Len(scored_chunks)) |->
                     [scored_chunks[k][2] EXCEPT !.rerank_score = <<scored_chunks[k][1]>>]]
         IN [returned |-> reranked, after |-> AfterWriting(chunks_in, reranked)]

\* rerank_with_metadata, lines 101-108, in hundredths
authority_map(source_type) ==
    CASE source_type = SidPdf -> 120
      [] source_type = KimPdf -> 110
      [] source_type = FactsheetConsolidated -> 100
      [] source_type = SchemeOverview -> 90
      [] source_type = <<"amfi">> -> 110
      [] source_type = <<"sebi">> -> 115
      [] OTHER -> 100

\* lines 111-127: the boosted score of a chunk, in 1/10000
final_score(chunk, boost_authority, boost_recent) ==
    (IF chunk.rerank_score = <<>> THEN 0 ELSE chunk.rerank_score[1])
        * (IF boost_authority THEN authority_map(chunk.source_type) ELSE 100)
        * (IF boost_recent /\ chunk.last_updated THEN 105 ELSE 100)

\* rerank_with_metadata cutting to top_k on the base scores, before the boosts
RerankWithMetadataCutFirst(model_loaded, prediction, chunks_in, top_k, boost_authority, boost_recent) ==
    IF chunks_in = <<>> THEN [returned |-> <<>>, after |-> chunks_in]
    ELSE LET first == Reranker_rerank(model_loaded, prediction, chunks_in, top_k)
             boosted ==
                 [k \in 1..Len(first.returned) |->
                     [first.returned[k] EXCEPT !.final_score =
                         <<final_score(first.returned[k], boost_authority, boost_recent)>>]]
             sorted ==
                 SortDescending([k \in 1..Len(boosted) |->
                                     <<boosted[k].final_score[1], boosted[k]>>])
             reranked == [k \in 1..Len(sorted) |-> sorted[k][2]]
         IN [returned |-> reranked, after |-> AfterWriting(first.after, reranked)]

\* Reranker.rerank_with_metadata, lines 74-132
Reranker_rerank_with_metadata(model_loaded, prediction, chunks_in, top_k, boost_authority, boost_recent) ==
    IF chunks_in = <<>> THEN [returned |-> <<>>, after |-> chunks_in]
    ELSE LET first == Reranker_rerank(model_loaded, prediction, chunks_in, Len(chunks_in))
         IN IF ~boost_authority /\ ~boost_recent
            THEN [returned |-> Take(first.returned, top_k), after |-> first.after]
            ELSE LET boosted ==
                         [k \in 1..Len(first.returned) |->
                             [first.returned[k] EXCEPT !.final_score =
                                 <<final_score(first.returned[k], boost_authority,
                                               boost_recent)>>]]
                     sorted ==
                         SortDescending([k \in 1..Len(boosted) |->
                                             <<boosted[k].final_score[1], boosted[k]>>])
                     reranked == [k \in 1..Len(sorted) |-> sorted[k][2]]
                 IN [returned |-> Take(reranked, top_k),
                     after |-> AfterWriting(first.after, reranked)]

\* the kinds of candidate the lists are drawn from
CandidateKinds ==
    { <<SidPdf, FALSE>>, <<SchemeOverview, FALSE>>, <<SchemeOverview, TRUE>> }

\* lists of at most MaxCandidates candidates, each a dict of its own
CandidateLists ==
    UNION { { [i \in 1..n |-> Candidate(i, kinds[i][1], kinds[i][2])] :
              kinds \in [1..n -> CandidateKinds] } :
            n \in 0..MaxCandidates }

NoOutput == [called |-> FALSE]

----------------------------------------------------------------------------
(* The re-ranker and the step of retrieve that calls it, as a state machine *)

InitRerank ==
    /\ IdleService
    /\ metadata = <<>>
    /\ use_reranker \in BOOLEAN
    /\ sources = <<>>
    /\ build = <<>>
    /\ \E chunks_in \in CandidateLists, top_k \in 0..MaxTopK :
           input = [chunks |-> chunks_in, top_k |-> top_k]
    /\ output = NoOutput
    /\ calls = <<>>
    /\ service = <<>>

RerankFrame ==
    /\ UNCHANGED <<metadata, use_reranker, retrieved, sources, build, input, calls, service>>
    /\ UNCHANGED cdVars
    /\ UNCHANGED exVars

\* one call of Reranker.rerank; use_reranker is reranker.model_loaded
\* (rag_retriever.py, line 50)
Rerank ==
    \E prediction \in Predictions(Len(input.chunks)) :
        /\ ~output.called
        /\ \E r \in {Reranker_rerank(use_reranker, prediction, input.chunks, input.top_k)} :
               output' = [called |-> TRUE, op |-> "rerank", prediction |-> prediction,
                          reranker_called |-> TRUE,
                          returned |-> r.returned, after |-> r.after]
        /\ RerankFrame

\* one call of Reranker.rerank_with_metadata with the default boost flags
RerankWithMetadata ==
    \E prediction \in Predictions(Len(input.chunks)) :
        /\ ~output.called
        /\ \E r \in {Reranker_rerank_with_metadata(use_reranker, prediction, input.chunks,
                                                  input.top_k, TRUE, TRUE)} :
               output' = [called |-> TRUE, op |-> "rerank_with_metadata",
                          prediction |-> prediction, reranker_called |-> TRUE,
                          returned |-> r.returned, after |-> r.after]
        /\ RerankFrame

\* retrieve, lines 403-416, on the result list input.chunks
RetrieveReturn ==
    \E prediction \in Predictions(Min2(Len(input.chunks), input.top_k * 2)),
       use_reranking \in BOOLEAN :
        /\ ~output.called
        /\ \E r \in {IF reranking_applies(input.chunks, input.top_k, use_reranking)
                     THEN Reranker_rerank_with_metadata(
                              use_reranker, prediction,
                              Take(input.chunks, Min2(Len(input.chunks), input.top_k * 2)),
                              input.top_k, TRUE, TRUE)
                     ELSE [returned |-> Truncated(input.chunks, input.top_k),
                           after |-> <<>>]} :
               output' = [called |-> TRUE, op |-> "retrieve", prediction |-> prediction,
                          reranker_called |->
                              reranking_applies(input.chunks, input.top_k, use_reranking),
                          returned |-> r.returned,
                          after |-> AfterWriting(input.chunks, r.after)]
        /\ RerankFrame

NextRerank == Rerank \/ RerankWithMetadata \/ RetrieveReturn

SpecRerank == InitRerank /\ [][NextRerank]_vars

\* C13: when the cross-encoder failed to load, rerank_with_metadata with the
\* default boost flags returns the first top_k candidates in their input
\* order and adds no score field to any candidate.
C13_UnloadedModelLeavesCandidates ==
    (output.called /\ output.op = "rerank_with_metadata" /\ ~use_reranker) =>
        /\ output.returned = Take(input.chunks, input.top_k)
        /\ output.after = input.chunks

\* C14: when the model failed to load or predict fails, rerank returns exactly
\* the first top_k input candidates in their input order; and retrieve never
\* calls the re-ranker when the model is not loaded.
C14_RerankFallsBackToInput ==
    /\ (output.called /\ output.op = "rerank" /\ (~use_reranker \/ output.prediction.raised)) =>
           /\ output.returned = Take(input.chunks, input.top_k)
           /\ output.after = input.chunks
    /\ (output.called /\ output.op = "retrieve" /\ ~use_reranker) =>
           /\ ~output.reranker_called
           /\ output.returned = Take(input.chunks, input.top_k)

\* predict raised on more candidates than top_k asks for, and the first top_k
\* came back
C14_Witness ==
    /\ output.called
    /\ output.op = "rerank"
    /\ use_reranker
    /\ output.prediction.raised
    /\ input.top_k >= 1
    /\ Len(input.chunks) > input.top_k
    /\ output.returned = Take(input.chunks, input.top_k)

----------------------------------------------------------------------------
(* rag_retriever.py: loading the index and the metadata from disk *)

MaxVectors == 3

\* the files under embeddings/: ntotal is the number of vectors in
\* faiss_index.bin, metadata the list in faiss_metadata.json
IndexFiles ==
    { [ntotal |-> n, metadata |-> m] : n \in 0..MaxVectors, m \in Corpora }

\* self.metadata[idx] for the label idx + 1 of a vector (retrieve, line 263):
\* an IndexError when the list is shorter
metadata_lookup(label) ==
    IF label > Len(metadata)
    THEN [called |-> TRUE, op |-> "lookup", label |-> label, raised |-> TRUE, meta |-> <<>>]
    ELSE [called |-> TRUE, op |-> "lookup", label |-> label, raised |-> FALSE,
          meta |-> metadata[label]]

InitLoad ==
    /\ IdleService
    /\ metadata = <<>>
    /\ use_reranker = FALSE
    /\ sources = <<>>
    /\ build = <<>>
    /\ input \in IndexFiles
    /\ output = NoOutput
    /\ calls = <<>>
    /\ service = <<>>

LoadFrame ==
    /\ UNCHANGED <<retrieved, sources, build, input, calls, service>>
    /\ UNCHANGED cdVars
    /\ UNCHANGED exVars

\* RAGRetriever.__init__, lines 19-54: reads both files and builds the maps
LoadRetriever ==
    /\ ~output.called
    /\ metadata' = input.metadata
    /\ use_reranker' \in BOOLEAN
    /\ output' = [called |-> TRUE, op |-> "load"]
    /\ LoadFrame

\* retrieve, lines 262-263: the scoring loop looks up a label the index returned
LookupHit ==
    \E label \in 1..input.ntotal :
        /\ output.called
        /\ output.op = "load"
        /\ output' = metadata_lookup(label)
        /\ UNCHANGED <<metadata, use_reranker>>
        /\ LoadFrame

NextLoad == LoadRetriever \/ LookupHit

SpecLoad == InitLoad /\ [][NextLoad]_vars

\* C15: a retriever is only constructed from an index whose number of vectors
\* equals the length of the metadata list; otherwise loading fails and no
\* query is answered against the misaligned pair.
C15_LoadChecksAlignment ==
    output.called => input.ntotal = Len(input.metadata)

----------------------------------------------------------------------------
(* query_classifier.py: classify as a function of the query *)

MaxPhrases == 2

\* the phrases the queries are built from
QueryPhrases ==
    { <<"W", "h", "o">>, <<"T", "E", "R">>, <<"t", "o", "p", " ", "5">>, <<"h", "o", "w", " ", "t", "o">>, <<"v", "s">>, <<"n", "a", "v">>, <<"g", "e", "t">>, <<"s", "t", "a", "t", "e", "m", "e", "n", "t">> }

\* queries of at most n phrases, separated by one space
RECURSIVE QueriesOf(_)
QueriesOf(n) ==
    IF n = 1 THEN QueryPhrases
    ELSE QueriesOf(n - 1)
             \cup { q \o <<" ">> \o w : q \in QueriesOf(n - 1), w \in QueryPhrases }

InitClassify ==
    /\ IdleService
    /\ metadata = <<>>
    /\ use_reranker = FALSE
    /\ sources = <<>>
    /\ build = <<>>
    /\ \E q \in QueriesOf(MaxPhrases) : input = [query |-> q]
    /\ output = NoOutput
    /\ calls = <<>>
    /\ service = <<>>

\* one call of QueryClassifier.classify
Classify ==
    /\ ~output.called
    /\ output' = [called |-> TRUE, op |-> "classify", query_type |-> classify(input.query)]
    /\ UNCHANGED <<metadata, use_reranker, retrieved, sources, build, input, calls, service>>
    /\ UNCHANGED cdVars
    /\ UNCHANGED exVars

NextClassify == Classify

SpecClassify == InitClassify /\ [][NextClassify]_vars

\* the positions of the declared types that have a pattern matching the query
MatchingTypes(query) ==
    {k \in 1..Len(query_types) : type_matches(query_types[k], Lower(query))}

\* C16: classify returns the first type, in the order entity, metric, list,
\* how_to, comparison, that has a pattern matching the query, and general when
\* none has; with patterns of several types matching, only that order decides,
\* not the places of the matches in the query.
C16_FirstTypeInDeclaredOrder ==
    (output.called /\ output.op = "classify") =>
        output.query_type =
            IF MatchingTypes(input.query) = {} THEN "general"
            ELSE query_types[Least(MatchingTypes(input.query))]

\* a query that starts with a metric phrase and goes on with an entity phrase
\* is classified as entity
C16_Witness ==
    /\ output.called
    /\ output.op = "classify"
    /\ output.query_type = "entity"
    /\ \E i \in 1..(Len(input.query) - 1) :
           /\ MatchingTypes(SubSeq(input.query, 1, i)) = {2}
           /\ 1 \in MatchingTypes(SubSeq(input.query, i + 1, Len(input.query)))

----------------------------------------------------------------------------
(* rag_qa_llm.py: _normalize_metric_value on percentage values *)

MaxHundredths == 150

MaxDecimals == 3

\* the least number of decimals that writes h hundredths exactly
LeastDecimals(h) == IF h % 100 = 0 THEN 0 ELSE IF h % 10 = 0 THEN 1 ELSE 2

\* the percentage of h hundredths written with d >= LeastDecimals(h) decimals,
\* with or without a space before the percent sign
Spelling(h, d, space) ==
    IntToChars(h \div 100)
        \o (IF d = 0 THEN <<>>
            ELSE <<".">> \o [i \in 1..d |->
                               IF i = 1 THEN DigitChar((h % 100) \div 10)
                               ELSE IF i = 2 THEN DigitChar(h % 10)
                               ELSE "0"])
        \o (IF space THEN <<" ">> ELSE <<>>)
        \o <<"%">>

Spellings(h) ==
    { Spelling(h, d, space) : d \in LeastDecimals(h)..MaxDecimals, space \in BOOLEAN }

InitNormalize ==
    /\ IdleService
    /\ metadata = <<>>
    /\ use_reranker = FALSE
    /\ sources = <<>>
    /\ build = <<>>
    /\ \E h \in 0..MaxHundredths :
           \E a \in Spellings(h), b \in Spellings(h) : input = [a |-> a, b |-> b]
    /\ output = NoOutput
    /\ calls = <<>>
    /\ service = <<>>

\* _normalize_metric_value on two spellings of one exit-load percentage, and
\* on the first result again
NormalizeMetricValue ==
    /\ ~output.called
    /\ \E first \in {_normalize_metric_value(input.a, "exit_load")} :
           output' = [called |-> TRUE, op |-> "normalize",
                      a |-> first,
                      b |-> _normalize_metric_value(input.b, "exit_load"),
                      again |-> _normalize_metric_value(first, "exit_load")]
    /\ UNCHANGED <<metadata, use_reranker, retrieved, sources, build, input, calls, service>>
    /\ UNCHANGED cdVars
    /\ UNCHANGED exVars

NextNormalize == NormalizeMetricValue

SpecNormalize == InitNormalize /\ [][NextNormalize]_vars

\* digits, a point, two digits and a percent sign
IsTwoDecimalPercent(s) ==
    /\ Len(s) >= 5
    /\ s[Len(s)] = "%"
    /\ s[Len(s) - 3] = "."
    /\ \A i \in 1..(Len(s) - 1) : i # Len(s) - 3 => IsDigit(s[i])

\* C17: normalizing an exit-load percentage gives the two-decimal string with
\* a trailing percent sign; two inputs that denote the same percentage, such
\* as "1%" and "1.00%", normalize to the same string; and normalizing a
\* normalized value changes nothing.
C17_SamePercentageSameString ==
    (output.called /\ output.op = "normalize") =>
        /\ IsTwoDecimalPercent(output.a)
        /\ output.a = output.b
        /\ output.again = output.a

----------------------------------------------------------------------------
(* rag_qa_llm.py: the confidence label as a function of the source type *)

\* the source types of the scheme's own documents, most authoritative first
RankedTypes == <<SidPdf, KimPdf, FactsheetConsolidated, SchemeOverview>>

\* the same chunks, all coming from sources of the given type
Retyped(list, source_type) ==
    [i \in 1..Len(list) |-> [list[i] EXCEPT !.source_type = source_type]]

RetypedFile(file, source_type) ==
    [file EXCEPT !.rows = Retyped(file.rows, source_type)]

InitConfidence ==
    /\ facts = <<>>
    /\ now = 0
    /\ conflicts = <<>>
    /\ previous = <<>>
    /\ runs = 0
    /\ resolved = <<"unset">>
    /\ \E n \in 0..MaxPick : chunks \in [1..n -> ChunkPool]
    /\ store \in Stores
    /\ result = <<>>
    /\ metadata = <<>>
    /\ use_reranker = FALSE
    /\ retrieved = <<>>
    /\ sources = <<>>
    /\ build = <<>>
    /\ input = <<>>
    /\ output = NoOutput
    /\ calls = <<>>
    /\ service = <<>>

\* _extract_metric_strict on the same chunks and the same store, once for each
\* source type they can come from
ExtractPerSourceType ==
    \E q \in Queries, n \in SchemeNames :
        /\ ~output.called
        /\ output' = [called |-> TRUE, op |-> "confidence", query |-> q, scheme_name |-> n,
                      by_type |-> [t \in 1..Len(RankedTypes) |->
                                      ExtractMetric(q, Retyped(chunks, RankedTypes[t]),
                                                    RetypedFile(store, RankedTypes[t]), n)]]
        /\ UNCHANGED <<chunks, store, result, sources, build, input, calls, service>>
        /\ UNCHANGED cdVars
        /\ UNCHANGED rtVars

NextConfidence == ExtractPerSourceType

SpecConfidence == InitConfidence /\ [][NextConfidence]_vars

ConfidenceRank(label) ==
    CASE label = "LOW" -> 0 [] label = "MEDIUM" -> 1 [] label = "HIGH" -> 2

\* C18: for one field and one extracted value, the confidence of a result
\* from a sid_pdf source is at least that from a kim_pdf source, which is at
\* least that from a factsheet_consolidated source, which is at least that
\* from a scheme_overview source, on every resolution path.
C18_ConfidenceMonotone ==
    (output.called /\ output.op = "confidence") =>
        \A i \in 1..Len(RankedTypes), j \in 1..Len(RankedTypes) :
            (/\ i < j
             /\ output.by_type[i].found
             /\ output.by_type[j].found
             /\ output.by_type[i].value = output.by_type[j].value)
                => ConfidenceRank(output.by_type[i].confidence)
                       >= ConfidenceRank(output.by_type[j].confidence)

\* the regex fallback found the same value under all four source types, with
\* HIGH for the scheme information document and MEDIUM for the overview
C18_Witness ==
    /\ output.called
    /\ output.op = "confidence"
    /\ \A t \in 1..Len(RankedTypes) :
           /\ output.by_type[t].found
           /\ output.by_type[t].path = 3
           /\ output.by_type[t].value = output.by_type[1].value
    /\ output.by_type[1].confidence = "HIGH"
    /\ output.by_type[4].confidence = "MEDIUM"

----------------------------------------------------------------------------
(* rag_retriever.py: concurrent retrieve calls on one retriever *)

\* the threads that call retrieve on the one retriever
Callers == {"a", "b"}

\* retrieve, lines 311-326 and 387-399: the dicts of self.metadata are the
\* result dicts themselves
ResultsAreMetadataDicts(results) ==
    {results[i].index : i \in 1..Len(results)}

\* retrieve, lines 311-326 and 387-399: every result is a new dict built from
\* the values of the chunk, so no dict of self.metadata is among the results;
\* the positions of self.metadata whose dict the call writes to
SharedDictsOf(results) == {}

\* self.metadata after the score keys were set on the dicts at positions
Touched(meta, positions) ==
    [i \in 1..Len(meta) |->
        IF i \in positions THEN [meta[i] EXCEPT !.field = "scored"] ELSE meta[i]]

IdleCall ==
    [pc |-> "idle", query |-> <<>>, top_k |-> 0, use_hierarchical |-> FALSE,
     locals |-> <<>>, found |-> <<>>, overlapped |-> FALSE, out |-> NoRetrieve]

InFlight(c) == calls[c].pc \in {"searching", "scored"}

\* some other call is between its first and its last step
Overlaps(c) == \E d \in Callers \ {c} : InFlight(d)

\* the corpora of the concurrent calls
SharedCorpora == {Picked({1, 3}), Picked({2, 4})}

\* the arguments of a concurrent call: query, top_k, use_hierarchical
CallArguments == RetrieveQueries \X {1} \X BOOLEAN

InitConcurrent ==
    /\ IdleService
    /\ metadata \in SharedCorpora
    /\ use_reranker \in BOOLEAN
    /\ sources = <<>>
    /\ build = <<>>
    /\ input = <<>>
    /\ output = <<>>
    /\ calls = [c \in Callers |-> IdleCall]
    /\ service = <<>>

ConcurrentFrame ==
    /\ UNCHANGED <<use_reranker, retrieved, sources, build, input, output, service>>
    /\ UNCHANGED cdVars
    /\ UNCHANGED exVars

\* retrieve, lines 164-235: a caller enters and works out its locals
StartRetrieve(c) ==
    \E args \in CallArguments :
        /\ calls[c].pc = "idle"
        /\ \E locals \in RetrieveLocals(args[1], args[2], args[3]) :
               calls' = [calls EXCEPT ![c] =
                            [@ EXCEPT !.pc = "searching", !.query = args[1],
                                      !.top_k = args[2], !.use_hierarchical = args[3],
                                      !.locals = locals]]
        /\ UNCHANGED metadata
        /\ ConcurrentFrame

\* retrieve, lines 237-329: the index is searched and the hits are scored; an
\* empty answer returns at once
SearchIndex(c) ==
    /\ calls[c].pc = "searching"
    /\ IF calls[c].locals.search_k = 0
       THEN calls' = [calls EXCEPT ![c] =
                         [@ EXCEPT !.pc = "done", !.overlapped = Overlaps(c),
                                   !.out = RetrieveCall(calls[c].query, calls[c].top_k,
                                                        calls[c].use_hierarchical,
                                                        calls[c].locals, {}, <<>>)]]
       ELSE \E found \in ScoredHits(calls[c].use_hierarchical, calls[c].locals) :
                calls' = [calls EXCEPT ![c] = [@ EXCEPT !.pc = "scored", !.found = found]]
    /\ UNCHANGED metadata
    /\ ConcurrentFrame

\* retrieve, lines 331-416: sort, overview chunk, re-ranking and return
ReturnResults(c) ==
    /\ calls[c].pc = "scored"
    /\ \E results \in ReturnedFrom(calls[c].query, calls[c].top_k, TRUE, TRUE,
                                   calls[c].found.scored) :
           /\ calls' = [calls EXCEPT ![c] =
                           [@ EXCEPT !.pc = "done", !.overlapped = Overlaps(c),
                                     !.out = RetrieveCall(calls[c].query, calls[c].top_k,
                                                          calls[c].use_hierarchical,
                                                          calls[c].locals,
                                                          calls[c].found.hits, results)]]
           /\ metadata' = Touched(metadata, SharedDictsOf(results))
    /\ ConcurrentFrame

NextConcurrent ==
    \E c \in Callers : StartRetrieve(c) \/ SearchIndex(c) \/ ReturnResults(c)

SpecConcurrent == InitConcurrent /\ [][NextConcurrent]_vars

\* the call of c gave a result that the same call gives when it runs alone
AsAlone(c) ==
    calls[c].out \in retrieve(calls[c].query, calls[c].top_k, TRUE,
                              calls[c].use_hierarchical, TRUE)

----------------------------------------------------------------------------
(* rag_retriever.py: the place of the injected overview chunk *)

\* C20: in the list retrieve returns, an injected overview chunk never stands
\* before a chunk that came from the vector search, whether re-ranking is
\* skipped or the injected chunk is among the candidates of the re-ranker.
C20_InjectedRanksLast ==
    retrieved.called =>
        \A i \in 1..Len(retrieved.results), j \in 1..Len(retrieved.results) :
            (i < j /\ retrieved.results[i].injected) => retrieved.results[j].injected

----------------------------------------------------------------------------
(* clean_chunks.py: what the deduplication keeps *)

\* the place of a source type in the authority ranking SID > KIM > factsheet >
\* overview, 0 for a type outside it
AuthorityRank(source_type) ==
    IF \E t \in 1..Len(RankedTypes) : RankedTypes[t] = source_type
    THEN Len(RankedTypes) + 1 - (CHOOSE t \in 1..Len(RankedTypes) : RankedTypes[t] = source_type)
    ELSE 0

SameKey(c, d) == c.scheme_tag = d.scheme_tag /\ c.field = d.field

\* C21: after the deduplication the chunk output holds at most one chunk per
\* (scheme_tag, field), and the chunk kept comes from the highest-authority
\* source type among the sources that produced a value for that key, under
\* SID > KIM > factsheet > overview, for every field.
C21_DedupKeepsHighestAuthority ==
    build # <<>> /\ build.pc \in {"quality", "written"} =>
        /\ \A i \in 1..Len(build.final_chunks), j \in 1..Len(build.final_chunks) :
               SameKey(build.final_chunks[i], build.final_chunks[j]) => i = j
        /\ \A i \in 1..Len(build.final_chunks), k \in 1..Len(build.all_chunks) :
               (/\ SameKey(build.final_chunks[i], build.all_chunks[k])
                /\ AuthorityRank(build.final_chunks[i].source_type) > 0
                /\ AuthorityRank(build.all_chunks[k].source_type) > 0)
                   => AuthorityRank(build.final_chunks[i].source_type)
                          >= AuthorityRank(build.all_chunks[k].source_type)

----------------------------------------------------------------------------
(* rag_retriever.py: the candidate set of a metric query *)

\* a completed hierarchical call of a metric query whose scheme and field
\* were identified
MetricCallOfScheme ==
    /\ retrieved.called
    /\ retrieved.use_hierarchical
    /\ retrieved.query_type = "metric"
    /\ retrieved.scheme_tag # ""
    /\ RAGRetriever_identify_field_from_query(retrieved.query) # ""

\* the candidate set by the size of the (S, F) bucket, from the chunks the
\* filter starts with
BucketRule(of_scheme) ==
    LET field == RAGRetriever_identify_field_from_query(retrieved.query)
        bucket == field_indices(retrieved.scheme_tag, field)
    IN IF Cardinality(bucket) >= FIELD_FILTER_THRESHOLD THEN of_scheme \cap bucket
       ELSE IF bucket # {} THEN of_scheme
       ELSE of_scheme \cup field_indices("ALL", field)

\* C22: for a metric query with scheme S identified and target field F, the
\* candidate set is (chunks of S) intersected with the (S, F) bucket when the
\* bucket has at least FIELD_FILTER_THRESHOLD chunks, all chunks of S when
\* the bucket is non-empty but smaller, and (chunks of S) united with the
\* (ALL, F) bucket when there is no (S, F) bucket.
C22_CandidatesByFieldBucket ==
    MetricCallOfScheme =>
        retrieved.candidate_indices = BucketRule(scheme_indices(retrieved.scheme_tag))

\* the rule as the code applies it: it starts from the chunks of S when S has
\* chunks in the index, and from all chunks when S has none
BucketRuleFromAllWhenUnindexed ==
    MetricCallOfScheme =>
        retrieved.candidate_indices =
            BucketRule(IF scheme_indices(retrieved.scheme_tag) # {}
                       THEN scheme_indices(retrieved.scheme_tag)
                       ELSE 1..Len(metadata))

----------------------------------------------------------------------------
(* rag_qa_llm.py: the resolution order of the extractor *)

\* the supplied chunks tagged with the field of the query
TaggedWith(field) == {i \in 1..Len(chunks) : chunks[i].field = field}

\* the rows of the chunk store of the field and the scheme tag
RowsOf(field, scheme_tag) ==
    {i \in 1..Len(store.rows) :
        store.rows[i].field = field /\ store.rows[i].scheme_tag = scheme_tag}

----------------------------------------------------------------------------
(* reranker.py: the boosted order *)

\* a completed call of rerank_with_metadata with the model loaded, boosts on
\* and scores returned by the cross-encoder
BoostedCall ==
    /\ output.called
    /\ output.op = "rerank_with_metadata"
    /\ use_reranker
    /\ ~output.prediction.raised

\* rerank_score x authority multiplier x recency multiplier of the candidate
\* at position i of the input, in 1/10000
ExpectedFinal(i) ==
    output.prediction.scores[i] * authority_map(input.chunks[i].source_type)
        * (IF input.chunks[i].last_updated THEN 105 ELSE 100)

PlaceOf(i) ==
    IF \E k \in 1..Len(output.returned) : output.returned[k].index = i
    THEN CHOOSE k \in 1..Len(output.returned) : output.returned[k].index = i
    ELSE 0

\* candidate i ranks below candidate j: j is returned, and i is cut or comes
\* after j
RanksBelow(i, j) == PlaceOf(j) # 0 /\ (PlaceOf(i) = 0 \/ PlaceOf(i) > PlaceOf(j))

\* C30: with the model loaded and boost_authority on, of two candidates with
\* the same cross-encoder score and the same recency status the one whose
\* source_type has the larger authority multiplier never ranks below the
\* other in the output of rerank_with_metadata, for every score value
\* including negative scores.
C30_AuthorityNeverRanksBelow ==
    BoostedCall =>
        \A i \in 1..Len(input.chunks), j \in 1..Len(input.chunks) :
            (/\ output.prediction.scores[i] = output.prediction.scores[j]
             /\ input.chunks[i].last_updated = input.chunks[j].last_updated
             /\ authority_map(input.chunks[i].source_type)
                    > authority_map(input.chunks[j].source_type))
                => ~RanksBelow(i, j)

----------------------------------------------------------------------------
(* Sanity ranges of extracted percentages: clean_chunks.py extract_expense_ratio
   and rag_qa_llm.py _extract_metric_strict on one percentage *)

\* percentages in hundredths: 0.00% to 1.50% in steps of 0.01, and on to
\* 15% in steps of 0.1
SanityHundredths ==
    (0..MaxHundredths) \cup { 10 * h : h \in 0..MaxHundredths }

\* the page text of a factsheet that states the ratio
ExpenseRatioText(h) ==
    <<"T", "o", "t", "a", "l", " ", "E", "x", "p", "e", "n", "s", "e", " ", "R", "a", "t", "i", "o", ":", " ">> \o Spelling(h, LeastDecimals(h), FALSE)

\* a retrieved chunk of running text that states the exit load
ExitLoadTextChunk(h) ==
    Chunk(<<"amc", "elss", "sid">>, SidPdf, "ELSS", "", <<>>,
          <<"e", "x", "i", "t", " ", "l", "o", "a", "d", " ">> \o Spelling(h, LeastDecimals(h), FALSE))

InitSanity ==
    /\ IdleService
    /\ metadata = <<>>
    /\ use_reranker = FALSE
    /\ sources = <<>>
    /\ build = <<>>
    /\ \E h \in SanityHundredths : input = [hundredths |-> h]
    /\ output = NoOutput
    /\ calls = <<>>
    /\ service = <<>>

SanityFrame ==
    /\ UNCHANGED <<metadata, use_reranker, retrieved, sources, build, input, calls, service>>
    /\ UNCHANGED cdVars
    /\ UNCHANGED exVars

\* extract_expense_ratio on the text of a factsheet
ExtractExpenseRatio ==
    /\ ~output.called
    /\ output' = [called |-> TRUE, op |-> "extract_expense_ratio",
                  value |-> extract_expense_ratio(ExpenseRatioText(input.hundredths),
                                                  FactsheetConsolidated)]
    /\ SanityFrame

\* _extract_metric_strict on one chunk of running text, without a chunk store
ExtractExitLoadStrict ==
    /\ ~output.called
    /\ output' = [called |-> TRUE, op |-> "_extract_metric_strict",
                  out |-> ExtractMetric(<<"e", "x", "i", "t", " ", "l", "o", "a", "d", " ", "o", "f", " ", "e", "l", "s", "s">>,
                                        <<ExitLoadTextChunk(input.hundredths)>>,
                                        NoFile, <<>>)]
    /\ SanityFrame

NextSanity == ExtractExpenseRatio \/ ExtractExitLoadStrict

SpecSanity == InitSanity /\ [][NextSanity]_vars

\* line 2419: a normalized exit load of 'nil', '0', '0.00%' or '0%' is answered
\* as "Nil (No exit load)", not as a percentage
AnsweredAsNil(normalized_value) ==
    Lower(normalized_value) \in { <<"n", "i", "l">>, <<"0">>, <<"0", ".", "0", "0", "%">>, <<"0", "%">> }

\* C25: a regex-extracted expense ratio outside [0.1%, 5.0%] or exit load
\* percentage outside [0.1%, 10.0%] is never returned as a value: the
\* fact-table extractor and the strict metric extractor each report a
\* percentage only when it lies within the range of its field.
C25_OutOfRangeNeverReturned ==
    /\ (output.called /\ output.op = "extract_expense_ratio" /\ output.value # <<>>)
           => (10 <= input.hundredths /\ input.hundredths <= 500)
    /\ (/\ output.called
        /\ output.op = "_extract_metric_strict"
        /\ output.out.found
        /\ ~AnsweredAsNil(output.out.value))
           => (10 <= input.hundredths /\ input.hundredths <= 1000)

\* the fact-table extractor alone keeps to its range
ExpenseRatioWithinRange ==
    (output.called /\ output.op = "extract_expense_ratio")
        => (output.value # <<>>
                <=> (10 <= input.hundredths /\ input.hundredths <= 500))

----------------------------------------------------------------------------
(* Round trip of the canonical chunks: clean_chunks.py create_chunk_text and
   the field-chunk step of _extract_metric_strict *)

\* create_chunk_text, lines 483-491
field_labels(field) ==
    CASE field = "minimum_sip"   -> <<"M", "i", "n", "i", "m", "u", "m", " ", "S", "I", "P">>
      [] field = "min_lumpsum"   -> <<"M", "i", "n", "i", "m", "u", "m", " ", "a", "p", "p", "l", "i", "c", "a", "t", "i", "o", "n", " ", "a", "m", "o", "u", "n", "t">>
      [] field = "exit_load"     -> <<"E", "x", "i", "t", " ", "L", "o", "a", "d">>
      [] field = "lock_in"       -> <<"L", "o", "c", "k", "-", "i", "n", " ", "p", "e", "r", "i", "o", "d">>
      [] field = "expense_ratio" -> <<"T", "o", "t", "a", "l", " ", "E", "x", "p", "e", "n", "s", "e", " ", "R", "a", "t", "i", "o", " ", "(", "T", "E", "R", ")">>
      [] field = "benchmark"     -> <<"B", "e", "n", "c", "h", "m", "a", "r", "k">>
      [] field = "riskometer"    -> <<"R", "i", "s", "k", "o", "m", "e", "t", "e", "r">>

\* create_chunk_text, lines 481-507: the three branches of the format write
\* the same sentence
create_chunk_text(field, value, source_id, source_type) ==
    LET chunk_text == field_labels(field) \o <<":", " ">> \o value \o <<".", " ", "S", "o", "u", "r", "c", "e", ":", " ">>
                          \o source_id \o <<" ", "(">> \o source_type \o <<")", ".">>
    IN IF Len(chunk_text) > 600 THEN SubSeq(chunk_text, 1, 597) \o <<".", ".", ".">>
       ELSE chunk_text

\* the builder with a chunk text cut at the end of the value
CreateChunkTextBare(field, value, source_id, source_type) ==
    field_labels(field) \o <<":", " ">> \o value

\* the sources of the chunks, with their ids and types as written in sources.csv
RoundTripSources ==
    { [source_id |-> <<"elss", "sid">>, source_type |-> SidPdf,
       id_text |-> <<"e", "l", "s", "s", "_", "s", "i", "d">>, type_text |-> <<"s", "i", "d", "_", "p", "d", "f">>],
      [source_id |-> <<"elss", "factsheet">>, source_type |-> FactsheetConsolidated,
       id_text |-> <<"e", "l", "s", "s", "_", "f", "a", "c", "t", "s", "h", "e", "e", "t">>, type_text |-> <<"f", "a", "c", "t", "s", "h", "e", "e", "t", "_", "c", "o", "n", "s", "o", "l", "i", "d", "a", "t", "e", "d">>] }

\* the values extract_expense_ratio reads from a factsheet that states a ratio
\* of 0.10% to 1.50%
ExpenseRatioValues ==
    { extract_expense_ratio(<<"T", "o", "t", "a", "l", " ", "E", "x", "p", "e", "n", "s", "e", " ", "R", "a", "t", "i", "o", ":", " ">> \o Spelling(h, d, FALSE),
                            FactsheetConsolidated) :
          h \in 10..MaxHundredths, d \in 0..2 } \ { <<>> }

\* field and value of the facts the builder writes chunks for
CanonicalFacts ==
    { <<"expense_ratio", v>> : v \in ExpenseRatioValues }
        \cup { <<"exit_load", <<"1", "%">>>>, <<"exit_load", <<"1", ".", "0", "0", "%">>>>, <<"exit_load", <<"N", "i", "l">>>>,
               <<"lock_in", <<"3", " ", "y", "e", "a", "r", "s">>>>, <<"minimum_sip", <<"₹", "5", "0", "0">>>>,
               <<"min_lumpsum", <<"₹", "5", ",", "0", "0", "0">>>>, <<"riskometer", <<"V", "e", "r", "y", " ", "H", "i", "g", "h">>>>,
               <<"benchmark", <<"N", "I", "F", "T", "Y", " ", "5", "0", "0", " ", "T", "R", "I">>>> }

\* lines 2172-2242 of _extract_metric_strict: the loop over the supplied chunks
\* for an identified field
FieldChunkStep(list, field) ==
    IF FirstFieldChunk(list, field, 1) # 0
    THEN FieldChunkResult(list[FirstFieldChunk(list, field, 1)])
    ELSE NotFound

InitRoundTrip ==
    /\ IdleService
    /\ metadata = <<>>
    /\ use_reranker = FALSE
    /\ sources = <<>>
    /\ build = <<>>
    /\ \E fact \in CanonicalFacts, source \in RoundTripSources :
           \* process_source reads the expense ratio from factsheets only
           /\ fact[1] = "expense_ratio" => source.source_type = FactsheetConsolidated
           /\ input = [field |-> fact[1], value |-> fact[2], source |-> source]
    /\ output = NoOutput
    /\ calls = <<>>
    /\ service = <<>>

\* the builder writes the chunk of the fact, and the field-chunk step of
\* _extract_metric_strict runs for the field with that chunk supplied
CreateAndExtract ==
    /\ ~output.called
    /\ \E chunk_text \in { create_chunk_text(input.field, input.value,
                                             input.source.id_text, input.source.type_text) } :
           output' = [called |-> TRUE, op |-> "round trip", chunk_text |-> chunk_text,
                      out |-> FieldChunkStep(
                                  << Chunk(input.source.source_id, input.source.source_type,
                                           "ELSS", input.field, chunk_text, <<>>) >>,
                                  input.field)]
    /\ SanityFrame

NextRoundTrip == CreateAndExtract

SpecRoundTrip == InitRoundTrip /\ [][NextRoundTrip]_vars

\* C26: for every field and value the builder creates a chunk for with
\* create_chunk_text, the field-chunk step of _extract_metric_strict applied
\* to that chunk reports exactly that value, also when the value holds a
\* decimal point.
C26_RoundTrip ==
    (output.called /\ output.op = "round trip")
        => /\ output.out.found
           /\ output.out.path = 1
           /\ output.out.value = input.value

\* the value reported is the builder's value up to its first point
ReportsUpToFirstPoint ==
    (output.called /\ output.op = "round trip")
        => /\ output.out.found
           /\ output.out.path = 1
           /\ output.out.value
                  = SubSeq(input.value, 1, DotOrEndFrom(input.value, 1) - 1)

----------------------------------------------------------------------------
(* rag_qa_llm.py: the scheme of the chunk behind a returned value *)

\* a canonical chunk of another scheme than the one asked for
LargeCapFieldChunk ==
    Chunk(<<"amc", "largecap", "sid">>, SidPdf, "LARGE_CAP", "exit_load",
          <<"E", "x", "i", "t", " ", "L", "o", "a", "d", ":", " ", "5", "%", ".", " ", "S", "o", "u", "r", "c", "e", ":", " ", "l", "a", "r", "g", "e", "c", "a", "p", "_", "s", "i", "d", " ", "(", "s", "i", "d", "_", "p", "d", "f", ")", ".">>, <<>>)

\* the chunks a retrieve call can supply: those of the asked scheme, of ALL and
\* of other schemes
SchemePool == ChunkPool \cup {LargeCapFieldChunk}

InitScheme ==
    /\ facts = <<>>
    /\ now = 0
    /\ conflicts = <<>>
    /\ previous = <<>>
    /\ runs = 0
    /\ resolved = <<"unset">>
    /\ \E n \in 0..MaxPick : chunks \in [1..n -> SchemePool]
    /\ store \in Stores
    /\ result = NoCall
    /\ metadata = <<>>
    /\ use_reranker = FALSE
    /\ retrieved = <<>>
    /\ IdleRest

NextScheme == ExtractMetricStrict

SpecScheme == InitScheme /\ [][NextScheme]_vars

\* the scheme tags of the chunks the returned value can have been read from:
\* the first supplied chunk of the field, the row of the direct lookup, or a
\* supplied chunk of the returned source whose text holds a value
OriginTags ==
    LET field == _identify_field_from_query(result.query)
    IN IF result.out.path = 1
       THEN { chunks[Least(TaggedWith(field))].scheme_tag }
       ELSE IF result.out.path = 2
       THEN { store.rows[_get_direct_chunk_from_file(store, field,
                                                     result.scheme_name)].scheme_tag }
       ELSE { chunks[i].scheme_tag : i \in
                { j \in 1..Len(chunks) :
                    /\ chunks[j].source_id = result.out.source_id
                    /\ _extract_numeric_pattern(chunks[j].text, field).found } }

\* C27: when a scheme is specified, every value _extract_metric_strict returns
\* comes from a chunk tagged with that scheme or with ALL, never from a chunk
\* of a different scheme, on all three resolution paths and for every
\* supplied chunk set.
C27_ValueOfRequestedScheme ==
    (result.called /\ result.scheme_name # <<>> /\ result.out.found)
        => \E tag \in OriginTags :
               tag \in {DirectSchemeTag(result.scheme_name), "ALL"}

\* the direct lookup and the regex fallback keep to the requested scheme
LaterPathsOfRequestedScheme ==
    (result.called /\ result.scheme_name # <<>> /\ result.out.found
        /\ result.out.path \in {2, 3})
        => \A tag \in OriginTags :
               tag \in {DirectSchemeTag(result.scheme_name), "ALL"}

----------------------------------------------------------------------------
(* The API process: api_server.py query, rag_system.py RAGSystem.query,
   access_control.py, clarification_handler.py and the chat context of
   rag_qa_llm.py.  The vector search and the language model are the
   environment: a retrieve call returns some chunks of the index, in index
   order, and an answer the model writes is derived from the chunks it is
   given.  md5 is taken to be injective on the queries. *)

MaxRequests == 3

Sessions == {"s1", "s2"}

Roles == {"PUBLIC", "ADMIN"}

Styles == {"default"}

\* a metric query that names a scheme, an entity query that names none, and a
\* metric query that names none
ServiceQueries == { <<"e", "x", "i", "t", " ", "l", "o", "a", "d", " ", "o", "f", " ", "e", "l", "s", "s">>, <<"w", "h", "o", " ", "r", "u", "n", "s", " ", "t", "h", "e", " ", "f", "u", "n", "d">>, <<"e", "x", "i", "t", " ", "l", "o", "a", "d">> }

Requests ==
    [query : ServiceQueries, session_id : Sessions, user_role : Roles,
     response_style : Styles]

\* the chunks behind the vector index of the service
ServiceIndex ==
    << Chunk(<<"amc", "elss", "sid">>, SidPdf, "ELSS", "exit_load",
             <<"E", "x", "i", "t", " ", "L", "o", "a", "d", ":", " ", "1", "%", ".", " ", "S", "o", "u", "r", "c", "e", ":", " ", "e", "l", "s", "s", "_", "s", "i", "d", " ", "(", "s", "i", "d", "_", "p", "d", "f", ")", ".">>, <<>>),
       Chunk(<<"amc", "elss", "factsheet">>, FactsheetConsolidated, "ELSS", "",
             <<>>, <<"e", "x", "i", "t", " ", "l", "o", "a", "d", " ", "3", "%">>) >>

\* the lists a retrieve call can return from the index
RECURSIVE SubListsFrom(_, _)
SubListsFrom(list, i) ==
    IF i > Len(list) THEN {<<>>}
    ELSE SubListsFrom(list, i + 1)
             \cup { <<list[i]>> \o rest : rest \in SubListsFrom(list, i + 1) }

SubLists(list) == SubListsFrom(list, 1)

\* what a retriever returns when it is called, <<>> when it is not
Retrieved(is_called) == IF is_called THEN SubLists(metadata) ELSE {<<>>}

\* access_control.py, lines 70-74; the ids and types of the model hold sid
\* and kim as whole words only
is_restricted(source_id, source_type) ==
    \E restricted_type \in {"sid", "kim"} :
        HasWord(source_id, restricted_type) \/ HasWord(source_type, restricted_type)

\* access_control.py, lines 39-45
role_access(role) ==
    IF role = "PUBLIC" THEN [public |-> TRUE, restricted |-> FALSE]
    ELSE [public |-> TRUE, restricted |-> TRUE]

\* AccessControl.filter_chunks_by_role, lines 47-80
filter_chunks_by_role(list, role) ==
    LET Allowed(chunk) ==
            ~is_restricted(chunk.source_id, chunk.source_type) \/ role_access(role).restricted
    IN IF role \in {"ADMIN", "INTERNAL"} THEN list ELSE SelectSeq(list, Allowed)

\* rag_qa_llm.py, lines 1168-1177, in dict order
scheme_keywords ==
    << <<<<"l", "a", "r", "g", "e", " ", "c", "a", "p">>, <<"H", "D", "F", "C", " ", "L", "a", "r", "g", "e", " ", "C", "a", "p", " ", "F", "u", "n", "d">>, "LARGE_CAP">>,
       <<<<"f", "l", "e", "x", "i", " ", "c", "a", "p">>, <<"H", "D", "F", "C", " ", "F", "l", "e", "x", "i", " ", "C", "a", "p", " ", "F", "u", "n", "d">>, "FLEXI_CAP">>,
       <<<<"f", "l", "e", "x", "i", "c", "a", "p">>, <<"H", "D", "F", "C", " ", "F", "l", "e", "x", "i", " ", "C", "a", "p", " ", "F", "u", "n", "d">>, "FLEXI_CAP">>,
       <<<<"e", "l", "s", "s">>, <<"H", "D", "F", "C", " ", "T", "a", "x", "S", "a", "v", "e", "r", " ", "(", "E", "L", "S", "S", ")">>, "ELSS">>,
       <<<<"t", "a", "x", "s", "a", "v", "e", "r">>, <<"H", "D", "F", "C", " ", "T", "a", "x", "S", "a", "v", "e", "r", " ", "(", "E", "L", "S", "S", ")">>, "ELSS">>,
       <<<<"t", "a", "x", " ", "s", "a", "v", "e", "r">>, <<"H", "D", "F", "C", " ", "T", "a", "x", "S", "a", "v", "e", "r", " ", "(", "E", "L", "S", "S", ")">>, "ELSS">>,
       <<<<"h", "y", "b", "r", "i", "d">>, <<"H", "D", "F", "C", " ", "H", "y", "b", "r", "i", "d", " ", "E", "q", "u", "i", "t", "y", " ", "F", "u", "n", "d">>, "HYBRID">>,
       <<<<"h", "y", "b", "r", "i", "d", " ", "e", "q", "u", "i", "t", "y">>, <<"H", "D", "F", "C", " ", "H", "y", "b", "r", "i", "d", " ", "E", "q", "u", "i", "t", "y", " ", "F", "u", "n", "d">>, "HYBRID">> >>

RECURSIVE SchemeFrom(_, _)
SchemeFrom(query_lower, k) ==
    IF k > Len(scheme_keywords) THEN [name |-> <<>>, tag |-> ""]
    ELSE IF Contains(query_lower, scheme_keywords[k][1])
    THEN [name |-> scheme_keywords[k][2], tag |-> scheme_keywords[k][3]]
    ELSE SchemeFrom(query_lower, k + 1)

\* RAGQALLM._extract_scheme_from_query, lines 1163-1183; <<>> is None
_extract_scheme_from_query(query) == SchemeFrom(Lower(query), 1)

\* clarification_handler.py, lines 29-41
clarification_metric_keywords ==
    << <<"m", "i", "n", "i", "m", "u", "m", " ", "s", "i", "p">>, <<"m", "i", "n", " ", "s", "i", "p">>, <<"s", "i", "p", " ", "m", "i", "n", "i", "m", "u", "m">>, <<"m", "i", "n", "i", "m", "u", "m", " ", "i", "n", "v", "e", "s", "t", "m", "e", "n", "t">>,
       <<"m", "i", "n", " ", "i", "n", "v", "e", "s", "t", "m", "e", "n", "t">>, <<"m", "i", "n", "i", "m", "u", "m", " ", "a", "m", "o", "u", "n", "t">>, <<"e", "x", "p", "e", "n", "s", "e", " ", "r", "a", "t", "i", "o">>, <<"t", "e", "r">>,
       <<"t", "o", "t", "a", "l", " ", "e", "x", "p", "e", "n", "s", "e", " ", "r", "a", "t", "i", "o">>, <<"e", "x", "i", "t", " ", "l", "o", "a", "d">>, <<"r", "e", "d", "e", "m", "p", "t", "i", "o", "n", " ", "c", "h", "a", "r", "g", "e">>, <<"e", "x", "i", "t", " ", "c", "h", "a", "r", "g", "e">>,
       <<"l", "o", "c", "k", "-", "i", "n">>, <<"l", "o", "c", "k", " ", "i", "n">>, <<"l", "o", "c", "k", "i", "n", " ", "p", "e", "r", "i", "o", "d">>, <<"b", "e", "n", "c", "h", "m", "a", "r", "k">>, <<"b", "e", "n", "c", "h", "m", "a", "r", "k", " ", "i", "n", "d", "e", "x">>,
       <<"r", "i", "s", "k", "o", "m", "e", "t", "e", "r">>, <<"r", "i", "s", "k", "-", "o", "-", "m", "e", "t", "e", "r">>, <<"r", "i", "s", "k", " ", "l", "e", "v", "e", "l">>, <<"r", "e", "t", "u", "r", "n", "s">>, <<"p", "e", "r", "f", "o", "r", "m", "a", "n", "c", "e">>,
       <<"n", "a", "v">>, <<"f", "u", "n", "d", " ", "m", "a", "n", "a", "g", "e", "r">>, <<"m", "a", "n", "a", "g", "e", "r">>, <<"w", "h", "o", " ", "m", "a", "n", "a", "g", "e", "s">>, <<"a", "u", "m">>,
       <<"a", "s", "s", "e", "t", "s", " ", "u", "n", "d", "e", "r", " ", "m", "a", "n", "a", "g", "e", "m", "e", "n", "t">>, <<"h", "o", "l", "d", "i", "n", "g", "s">>, <<"t", "o", "p", " ", "h", "o", "l", "d", "i", "n", "g", "s">>, <<"p", "o", "r", "t", "f", "o", "l", "i", "o">> >>

\* ClarificationHandler._has_metric
_has_metric(query_lower) == ContainsAny(query_lower, clarification_metric_keywords)

\* re.search(r'a\s*b', s)
SearchSpaced(s, a, b) ==
    \E i \in 1..Len(s) :
        /\ MatchLiteral(s, i, a) # 0
        /\ MatchLiteral(s, SpaceRunEnd(s, MatchLiteral(s, i, a)), b) # 0

\* ClarificationHandler._has_fund_name, lines 44-49 and 210-215
_has_fund_name(query_lower) ==
    \/ SearchSpaced(query_lower, <<"l", "a", "r", "g", "e">>, <<"c", "a", "p">>)
    \/ SearchSpaced(query_lower, <<"f", "l", "e", "x", "i">>, <<"c", "a", "p">>)
    \/ SearchSpaced(query_lower, <<"t", "a", "x">>, <<"s", "a", "v", "e", "r">>)
    \/ ContainsAny(query_lower, << <<"e", "l", "s", "s">>, <<"h", "y", "b", "r", "i", "d">> >>)

\* ClarificationHandler._generate_metric_clarification, lines 224-264: there
\* is a question to ask back
_generate_metric_clarification(query_lower) ==
    ContainsAny(query_lower,
        << <<"m", "i", "n", "i", "m", "u", "m", " ", "s", "i", "p">>, <<"m", "i", "n", " ", "s", "i", "p">>, <<"s", "i", "p", " ", "m", "i", "n", "i", "m", "u", "m">>, <<"m", "i", "n", "i", "m", "u", "m", " ", "i", "n", "v", "e", "s", "t", "m", "e", "n", "t">>,
           <<"m", "i", "n", " ", "i", "n", "v", "e", "s", "t", "m", "e", "n", "t">>, <<"m", "i", "n", "i", "m", "u", "m", " ", "a", "m", "o", "u", "n", "t">>, <<"e", "x", "p", "e", "n", "s", "e", " ", "r", "a", "t", "i", "o">>, <<"t", "e", "r">>,
           <<"e", "x", "i", "t", " ", "l", "o", "a", "d">>, <<"r", "e", "d", "e", "m", "p", "t", "i", "o", "n", " ", "c", "h", "a", "r", "g", "e">>, <<"l", "o", "c", "k", "-", "i", "n">>, <<"l", "o", "c", "k", " ", "i", "n">>, <<"l", "o", "c", "k", "i", "n">>,
           <<"b", "e", "n", "c", "h", "m", "a", "r", "k">>, <<"r", "i", "s", "k", "o", "m", "e", "t", "e", "r">>, <<"r", "i", "s", "k", "-", "o", "-", "m", "e", "t", "e", "r">>, <<"r", "i", "s", "k", " ", "l", "e", "v", "e", "l">>, <<"r", "e", "t", "u", "r", "n", "s">>,
           <<"p", "e", "r", "f", "o", "r", "m", "a", "n", "c", "e">>, <<"f", "u", "n", "d", " ", "m", "a", "n", "a", "g", "e", "r">>, <<"m", "a", "n", "a", "g", "e", "r">>, <<"w", "h", "o", " ", "m", "a", "n", "a", "g", "e", "s">>, <<"a", "u", "m">>,
           <<"a", "s", "s", "e", "t", "s", " ", "u", "n", "d", "e", "r", " ", "m", "a", "n", "a", "g", "e", "m", "e", "n", "t">>, <<"h", "o", "l", "d", "i", "n", "g", "s">>, <<"t", "o", "p", " ", "h", "o", "l", "d", "i", "n", "g", "s">>, <<"p", "o", "r", "t", "f", "o", "l", "i", "o">>,
           <<"n", "a", "v">> >>)

\* ClarificationHandler.needs_clarification, lines 58-69; the later checks
\* (lines 71-115) match none of the queries of the model
needs_clarification(query) ==
    /\ _has_metric(Lower(query))
    /\ ~_has_fund_name(Lower(query))
    /\ _generate_metric_clarification(Lower(query))

NoContext == [last_scheme |-> <<>>, last_scheme_tag |-> "", set_by |-> ""]

\* the result dict of an answer; derived and scheme_from are history: the
\* sources of the chunks the answer was made from, and the session whose
\* query recorded the scheme taken from the chat context
Result(kind, value, derived, scheme, scheme_from) ==
    [kind |-> kind, value |-> value, derived |-> derived, scheme |-> scheme,
     scheme_from |-> scheme_from]

SourcesOf(list) == { <<list[i].source_id, list[i].source_type>> : i \in 1..Len(list) }

\* what the classifier, the field and scheme keywords and the clarification
\* handler make of each query of the model
QueryFacts ==
    [query \in ServiceQueries |->
        [query_type |-> classify(query),
         field |-> _identify_field_from_query(query),
         scheme |-> _extract_scheme_from_query(query),
         needs_clarification |-> needs_clarification(query)]]

\* lines 1269-1272: a query that names no scheme takes the last scheme of the
\* chat context
UsesContext(query, chat_context) ==
    /\ QueryFacts[query].scheme.name = <<>>
    /\ chat_context.last_scheme # <<>>
    /\ QueryFacts[query].query_type \in {"metric", "entity"}

\* lines 1524-1590: the value the extractor reads for a metric query, or an
\* answer the language model writes from the chunks
AnswerFromChunks(query_type, list, strict_result, scheme_name, scheme_from) ==
    IF query_type = "metric" /\ strict_result.found
    THEN Result("answer", strict_result.value,
                {<<strict_result.source_id, strict_result.source_type>>},
                scheme_name, scheme_from)
    ELSE Result("generated", <<>>, SourcesOf(list), scheme_name, scheme_from)

\* lines 1399-1466: without chunks the scheme is read from the query again, a
\* metric is looked up in the chunk store (direct, with the value pattern of
\* line 1412, which is that of line 2250), and a new retriever is asked; retry
\* is what it returns
AnswerWithScheme(query, query_type, field, own, direct, supplied, retry, scheme_name, scheme_from) ==
    LET retried == IF supplied = <<>> /\ retry # <<>> THEN retry ELSE supplied
        strict_name == IF supplied = <<>> THEN own.name ELSE scheme_name
    IN IF supplied = <<>> /\ query_type # "metric"
       THEN Result("suggestion", <<>>, {}, <<>>, "")
       ELSE IF supplied = <<>> /\ field # "" /\ direct.found
       THEN Result("answer", direct.value, {<<direct.source_id, direct.source_type>>},
                   own.name, "")
       ELSE IF retried = <<>>
       THEN Result("not found", <<>>, {}, <<>>, "")
       ELSE AnswerFromChunks(query_type, retried,
                             ExtractMetric(query, retried, store, strict_name),
                             strict_name, scheme_from)

\* lines 1260-1301: the scheme of the query, else the last scheme of the chat
\* context with the chunks of a new retriever; again is what it returns
AnswerOfType(query, query_type, field, own, list, again, retry, chat_context) ==
    LET from_context == /\ own.name = <<>>
                        /\ chat_context.last_scheme # <<>>
                        /\ query_type \in {"metric", "entity"}
    IN IF own.name = <<>> /\ chat_context.last_scheme = <<>>
              /\ query_type \in {"metric", "entity"}
       THEN Result("which scheme", <<>>, {}, <<>>, "")
       ELSE AnswerWithScheme(query, query_type, field, own,
                             DirectResult(store, field, own.name),
                             IF from_context THEN again ELSE list, retry,
                             IF own.name # <<>> THEN own.name
                             ELSE IF from_context THEN chat_context.last_scheme
                             ELSE <<>>,
                             IF from_context THEN chat_context.set_by ELSE "")

\* RAGQALLM._generate_single_answer, lines 1260-1590, for the queries of the
\* model
_generate_single_answer(query, list, again, retry, chat_context) ==
    AnswerOfType(query, QueryFacts[query].query_type, QueryFacts[query].field,
                 QueryFacts[query].scheme, list, again, retry, chat_context)

\* lines 1263-1266: the chat context of the one RAGQALLM instance once the
\* scheme of a query is known
ChatContextWith(chat_context, scheme, session_id) ==
    IF scheme.name # <<>>
    THEN [last_scheme |-> scheme.name, last_scheme_tag |-> scheme.tag,
          set_by |-> session_id]
    ELSE chat_context

\* RAGQALLM.generate_answer, lines 1019-1161: result and chat context
generate_answer(query, list, again, retry, chat_context, session_id) ==
    IF QueryFacts[query].needs_clarification
    THEN [result |-> Result("clarification", <<>>, {}, <<>>, ""),
          chat_context |-> chat_context]
    ELSE [result |-> _generate_single_answer(query, list, again, retry, chat_context),
          chat_context |-> ChatContextWith(chat_context, QueryFacts[query].scheme,
                                           session_id)]

\* ConversationManager.get_conversation_summary, lines 125-155: the number of
\* questions of the session and its latest three; the entities of the working
\* memory of the session and the cut at 500 characters are left out
Summary(history) ==
    IF history = <<>> THEN <<>>
    ELSE <<Len(history)>> \o SubSeq(history, IF Len(history) > 3 THEN Len(history) - 2 ELSE 1, Len(history))

NoResponse == [kind |-> "none"]

\* a key the cache holds no entry for
NoEntry == [created |-> -1]

NoRequest == [query |-> <<>>, session_id |-> "", user_role |-> "", response_style |-> ""]

CacheKeys == ServiceQueries \X Styles

\* api_server.py, lines 226 and 354
cache_key(request) == <<request.query, request.response_style>>

\* RAGSystem.query, lines 180-208, and api_server.py, lines 327-341: the
\* response built from the result of generate_answer
Response(g, session_id, conversation_summary) ==
    [response |-> [kind |-> g.result.kind, value |-> g.result.value,
                   derived |-> g.result.derived, scheme |-> g.result.scheme,
                   scheme_from |-> g.result.scheme_from,
                   session_id |-> session_id,
                   conversation_summary |-> conversation_summary,
                   cached |-> FALSE],
     chat_context |-> g.chat_context]

\* RAGSystem.query, lines 96-208: the response to a request that missed the
\* cache, and the chat context after it
Answered(request, retrieved_list, again, retry) ==
    Response(generate_answer(request.query,
                             filter_chunks_by_role(retrieved_list, request.user_role),
                             again, retry, service.chat_context, request.session_id),
             request.session_id, Summary(service.history[request.session_id]))

ServiceFrame ==
    /\ UNCHANGED <<metadata, use_reranker, retrieved, sources, build, input, output, calls>>
    /\ UNCHANGED cdVars
    /\ UNCHANGED exVars

InitService ==
    /\ facts = <<>>
    /\ now = 0
    /\ conflicts = <<>>
    /\ previous = <<>>
    /\ runs = 0
    /\ resolved = <<"unset">>
    /\ chunks = <<>>
    /\ store \in Stores
    /\ result = <<>>
    /\ metadata = ServiceIndex
    /\ use_reranker = FALSE
    /\ retrieved = <<>>
    /\ sources = <<>>
    /\ build = <<>>
    /\ input = <<>>
    /\ output = <<>>
    /\ calls = <<>>
    /\ service = [cache |-> [k \in CacheKeys |-> NoEntry],
                  chat_context |-> NoContext,
                  history |-> [s \in Sessions |-> <<>>],
                  summary |-> <<>>,
                  handled |-> 0,
                  request |-> NoRequest,
                  response |-> NoResponse]

\* simple_cache.py, lines 62-66 and 128-139: every entry lives equally long,
\* so the entries that have expired at some moment are those made before some
\* request; get deletes an expired entry and returns None
Unexpired(cache, expired_before) ==
    [key \in CacheKeys |->
        IF cache[key] # NoEntry /\ cache[key].created < expired_before
        THEN NoEntry ELSE cache[key]]

\* api_server.py, lines 229-235: a cached response is returned as it is, with
\* cached set
CacheHit(request, cache) ==
    service' = [service EXCEPT
        !.cache = [cache EXCEPT ![cache_key(request)].value.cached = TRUE],
        !.summary = Summary(service.history[request.session_id]),
        !.handled = @ + 1,
        !.request = request,
        !.response = [cache[cache_key(request)].value EXCEPT !.cached = TRUE]]

\* api_server.py, lines 237-358: RAGSystem.query answers and the response is
\* cached
CacheMiss(request, cache) ==
    \E retrieved_list \in SubLists(metadata) :
    \E again \in Retrieved(UsesContext(request.query, service.chat_context)) :
    \E retry \in Retrieved(again = <<>> /\ filter_chunks_by_role(
                                retrieved_list, request.user_role) = <<>>) :
    \E a \in {Answered(request, retrieved_list, again, retry)} :
        service' = [service EXCEPT
            !.cache = [cache EXCEPT ![cache_key(request)] =
                          [value |-> a.response, created |-> service.handled]],
            !.chat_context = a.chat_context,
            !.history[request.session_id] = Append(@, request.query),
            !.summary = Summary(service.history[request.session_id]),
            !.handled = @ + 1,
            !.request = request,
            !.response = a.response]

\* POST /api/query, api_server.py lines 195-360, at a moment when the entries
\* made before the request numbered expired_before have expired.  summary is
\* history: the summary of the session when the request came in
Query ==
    \E request \in Requests :
        /\ service.handled < MaxRequests
        /\ \E cache \in { Unexpired(service.cache, expired_before) :
                            expired_before \in 0..service.handled } :
               IF cache[cache_key(request)] # NoEntry
               THEN CacheHit(request, cache)
               ELSE CacheMiss(request, cache)
        /\ ServiceFrame

NextService == Query

SpecService == InitService /\ [][NextService]_vars

\* C28: role-based access holds end to end: after any sequence of requests by
\* users of any roles, the response to a PUBLIC-role request is never derived
\* from a chunk of a restricted source (SID or KIM), neither through the
\* response cache of the API nor through the direct chunk-store lookup of the
\* extractor.
C28_PublicNeverFromRestricted ==
    (service.handled > 0 /\ service.request.user_role = "PUBLIC")
        => \A d \in service.response.derived : ~is_restricted(d[1], d[2])

\* the chunks RAGSystem.query hands to generate_answer for a PUBLIC request
\* hold no restricted source: every restricted source of a PUBLIC response
\* came in through the cache, the chunk store or a retriever made inside
\* generate_answer
FilteredChunksArePublic ==
    \A list \in SubLists(metadata) :
        \A d \in SourcesOf(filter_chunks_by_role(list, "PUBLIC")) :
            ~is_restricted(d[1], d[2])

\* the summaries the session has had: those of the beginnings of its history
SummariesOf(session_id) ==
    { Summary(SubSeq(service.history[session_id], 1, n)) :
        n \in 0..Len(service.history[session_id]) }

\* C29: session isolation: the response to a query in one session carries the
\* id of that session and a conversation summary of that session, after a
\* cache hit too, and a scheme taken from the chat context to resolve a query
\* that names none was recorded while answering a query of that session.
C29_SessionIsolation ==
    service.handled > 0
        => /\ service.response.session_id = service.request.session_id
           /\ service.response.conversation_summary
                  \in SummariesOf(service.request.session_id)
           /\ service.response.scheme_from \in {"", service.request.session_id}

\* a response that did not come from the cache carries the id and the summary
\* of the session of its request
FreshResponseOfOwnSession ==
    (service.handled > 0 /\ ~service.response.cached)
        => /\ service.response.session_id = service.request.session_id
           /\ service.response.conversation_summary = service.summary

====
